---- MODULE Spec2Model ----
(***************************************************************************)
(* Model of the go-ddd payment service: the Payment entity and its guarded *)
(* transitions, the payment domain service, the audit domain service, the  *)
(* payment application service that couples them, and the two in-memory    *)
(* repositories.                                                           *)
(***************************************************************************)
EXTENDS Integers, Sequences, FiniteSets, TLC

(***************************************************************************)
(* Bounds of the model.                                                    *)
(***************************************************************************)
\* largest reading of the clock (time.Now)
MaxTime == 1
\* number of payments that can be created (fresh PaymentIDs 1..MaxPayments)
MaxPayments == 1
\* number of service calls the callers make in one run
MaxCalls == 4
\* number of payments created by the callers of the payment store alone
MaxStored == 2
MaxEntries == 2

(***************************************************************************)
(* Input sets.                                                             *)
(***************************************************************************)
Callers == {"c1", "c2"}
UserIDs == {"user-123", "user-456"}
Currencies == {"", "USD"}
Descriptions == {"Online purchase"}

\* float64: a finite number or NaN
Float(n) == [nan |-> FALSE, n |-> n]
NaN == [nan |-> TRUE, n |-> 0]
AmountValues == {Float(-10), Float(100), NaN}
\* the float64 comparison a < b (false whenever an operand is NaN)
FloatLt(a, b) == ~a.nan /\ ~b.nan /\ a.n < b.n

NoErr == "nil"

(***************************************************************************)
(* payment: PaymentStatus, Amount, Payment                                 *)
(***************************************************************************)
PaymentStatusPending == 0
PaymentStatusProcessing == 1
PaymentStatusCompleted == 2
PaymentStatusFailed == 3
PaymentStatusCancelled == 4
PaymentStatuses == 0..4

StatusString(s) ==
    CASE s = PaymentStatusPending -> "pending"
      [] s = PaymentStatusProcessing -> "processing"
      [] s = PaymentStatusCompleted -> "completed"
      [] s = PaymentStatusFailed -> "failed"
      [] s = PaymentStatusCancelled -> "cancelled"
      [] OTHER -> "unknown"

\* the currency is not validated
NewAmountMutant(value, currency) ==
    IF FloatLt(value, Float(0))
    THEN [amount |-> [value |-> Float(0), currency |-> ""],
          err |-> "amount cannot be negative"]
    ELSE [amount |-> [value |-> value, currency |-> currency], err |-> NoErr]

NewAmount(value, currency) ==
    IF FloatLt(value, Float(0))
    THEN [amount |-> [value |-> Float(0), currency |-> ""],
          err |-> "amount cannot be negative"]
    ELSE IF currency = ""
    THEN [amount |-> [value |-> Float(0), currency |-> ""],
          err |-> "currency cannot be empty"]
    ELSE [amount |-> [value |-> value, currency |-> currency], err |-> NoErr]

ValidAmounts ==
    {NewAmount(v, c).amount : v \in {x \in AmountValues : ~FloatLt(x, Float(0))},
                              c \in Currencies \ {""}}

\* the clock is read twice and has advanced in between
NewPaymentMutant(id, amount, description, t) ==
    [id |-> id, amount |-> amount, status |-> PaymentStatusPending,
     description |-> description, createdAt |-> t, updatedAt |-> t + 1]

NewPayment(id, amount, description, t) ==
    [id |-> id, amount |-> amount, status |-> PaymentStatusPending,
     description |-> description, createdAt |-> t, updatedAt |-> t]

\* The four guarded transitions.  Each is split the way the code runs it:
\* the guard reads p.status, then p.status and p.updatedAt are assigned.

\* Process is also accepted from failed
ProcessGuardMutant(p) ==
    IF p.status # PaymentStatusPending /\ p.status # PaymentStatusFailed
    THEN "payment can only be processed from pending status" ELSE NoErr

ProcessGuard(p) ==
    IF p.status # PaymentStatusPending
    THEN "payment can only be processed from pending status" ELSE NoErr

\* Complete is also accepted from pending
CompleteGuardMutant(p) ==
    IF p.status # PaymentStatusProcessing /\ p.status # PaymentStatusPending
    THEN "payment can only be completed from processing status" ELSE NoErr

CompleteGuard(p) ==
    IF p.status # PaymentStatusProcessing
    THEN "payment can only be completed from processing status" ELSE NoErr

\* failing a failed payment is rejected
FailGuardMutant(p) ==
    IF p.status = PaymentStatusCompleted \/ p.status = PaymentStatusFailed
    THEN "completed payment cannot be failed" ELSE NoErr

FailGuard(p) ==
    IF p.status = PaymentStatusCompleted
    THEN "completed payment cannot be failed" ELSE NoErr

\* Cancel is accepted from processing
CancelGuardMutant(p) ==
    IF p.status = PaymentStatusCompleted
    THEN "payment cannot be cancelled in current status" ELSE NoErr

CancelGuard(p) ==
    IF p.status = PaymentStatusCompleted \/ p.status = PaymentStatusProcessing
    THEN "payment cannot be cancelled in current status" ELSE NoErr

TransitionOps == {"Process", "Complete", "Fail", "Cancel"}

\* Fail has lost its guard
GuardMutant(op, p) ==
    CASE op = "Process" -> ProcessGuard(p)
      [] op = "Complete" -> CompleteGuard(p)
      [] op = "Fail" -> NoErr
      [] op = "Cancel" -> CancelGuard(p)

Guard(op, p) ==
    CASE op = "Process" -> ProcessGuard(p)
      [] op = "Complete" -> CompleteGuard(p)
      [] op = "Fail" -> FailGuard(p)
      [] op = "Cancel" -> CancelGuard(p)

\* the status the transition assigns once its guard has passed
\* Cancel puts the payment back to pending
StatusWrittenMutant(op) ==
    CASE op = "Process" -> PaymentStatusProcessing
      [] op = "Complete" -> PaymentStatusCompleted
      [] op = "Fail" -> PaymentStatusFailed
      [] op = "Cancel" -> PaymentStatusPending

StatusWritten(op) ==
    CASE op = "Process" -> PaymentStatusProcessing
      [] op = "Complete" -> PaymentStatusCompleted
      [] op = "Fail" -> PaymentStatusFailed
      [] op = "Cancel" -> PaymentStatusCancelled

SetStatus(op, p) == [p EXCEPT !.status = StatusWritten(op)]
\* updatedAt is not refreshed
SetUpdatedAtMutant(p, t) == p

SetUpdatedAt(p, t) == [p EXCEPT !.updatedAt = t]

\* a rejected call that still refreshes updatedAt
TransitionMutant(op, p, t) ==
    IF Guard(op, p) # NoErr
    THEN [p |-> SetUpdatedAt(p, t), err |-> Guard(op, p)]
    ELSE [p |-> SetUpdatedAt(SetStatus(op, p), t), err |-> NoErr]

\* one whole call of p.Process / p.Complete / p.Fail / p.Cancel at time t
Transition(op, p, t) ==
    IF Guard(op, p) # NoErr
    THEN [p |-> p, err |-> Guard(op, p)]
    ELSE [p |-> SetUpdatedAt(SetStatus(op, p), t), err |-> NoErr]

Process(p, t) == Transition("Process", p, t)
Complete(p, t) == Transition("Complete", p, t)
Fail(p, t) == Transition("Fail", p, t)
Cancel(p, t) == Transition("Cancel", p, t)

PaymentIDFromString(id) == id
\* the n-th identifier handed out by NewPaymentID (uuid: fresh on every call)
NewPaymentID(n) == "payment-" \o ToString(n)
PaymentIDs == {NewPaymentID(n) : n \in 1..MaxPayments}
\* the payment ids a caller of the application service passes: those of the
\* created payments and one that no payment has
RequestIDs == PaymentIDs \cup {"non-existent-payment"}
\* the identifiers used by the callers of the payment store
StoredIDs == {NewPaymentID(n) : n \in 1..MaxStored}

(***************************************************************************)
(* audit: values, payloads, AuditEntry                                     *)
(***************************************************************************)
\* a Go value stored under a key of a map[string]interface{}
Str(s) == [kind |-> "string", s |-> s, f |-> Float(0)]
Num(f) == [kind |-> "number", s |-> "", f |-> f]
Time(t) == [kind |-> "time", s |-> "", f |-> Float(t)]
\* time.Time as encoding/json writes it
FormatTime(t) == "time-" \o ToString(t)

EmptyMap == [k \in {} |-> Str("")]
\* an interface{} argument: nil (json.Marshal writes null), or a
\* map[string]interface{}
NilData == [kind |-> "nil", m |-> EmptyMap]
MapData(m) == [kind |-> "map", m |-> m]
\* other arguments: a struct with exported fields, and a value of another
\* kind: a bare scalar, a non-nil slice, a channel ("chan"), a function
\* ("func")
StructData(m) == [kind |-> "struct", m |-> m]
OtherData(kind) == [kind |-> kind, m |-> EmptyMap]
\* the oldData / newData field of an entry: a map, possibly the nil map
Payload(m) == [isNil |-> FALSE, m |-> m]
NilPayload == [isNil |-> TRUE, m |-> EmptyMap]

EntityTypePayment == "payment"
ActionTypeCreated == "created"
ActionTypeUpdated == "updated"
ActionTypeDeleted == "deleted"
ActionTypeProcessed == "processed"
ActionTypeCompleted == "completed"
ActionTypeFailed == "failed"
ActionTypeCancelled == "cancelled"

\* the n-th identifier handed out by NewAuditID
NewAuditID(n) == "audit-" \o ToString(n)

\* oldData is left unset
NewAuditEntryMutant(id, entityType, entityID, action, userID, t) ==
    [id |-> id, entityType |-> entityType, entityID |-> entityID,
     action |-> action, oldData |-> NilPayload,
     newData |-> Payload(EmptyMap), userID |-> userID, timestamp |-> t,
     metadata |-> Payload(EmptyMap)]

NewAuditEntry(id, entityType, entityID, action, userID, t) ==
    [id |-> id, entityType |-> entityType, entityID |-> entityID,
     action |-> action, oldData |-> Payload(EmptyMap),
     newData |-> Payload(EmptyMap), userID |-> userID, timestamp |-> t,
     metadata |-> Payload(EmptyMap)]

\* a pointer field of AuditFilter: nil, or the address of a value
NilPtr(zero) == [isNil |-> TRUE, v |-> zero]
Ptr(v) == [isNil |-> FALSE, v |-> v]

AuditFilter(entityType, entityID, action, userID, fromDate, toDate) ==
    [EntityType |-> entityType, EntityID |-> entityID, Action |-> action,
     UserID |-> userID, FromDate |-> fromDate, ToDate |-> toDate]
\* AuditFilter{}: every field nil
EmptyFilter ==
    AuditFilter(NilPtr(""), NilPtr(""), NilPtr(""), NilPtr(""), NilPtr(0),
                NilPtr(0))

\* json.Marshal: fails on a channel or function and on a NaN number
MarshalErr(data) ==
    IF data.kind \in {"chan", "func"} THEN "json: unsupported type"
    ELSE IF \E k \in DOMAIN data.m : data.m[k].kind = "number" /\ data.m[k].f.nan
    THEN "json: unsupported value"
    ELSE NoErr

\* a value after json.Marshal and json.Unmarshal into interface{}
JSONValue(v) == IF v.kind = "time" THEN Str(FormatTime(v.f.n)) ELSE v

\* json.Unmarshal of the marshalled data into a map[string]interface{}
Unmarshal(data) ==
    IF data.kind = "nil" THEN [payload |-> NilPayload, err |-> NoErr]
    ELSE IF data.kind \in {"map", "struct"}
    THEN [payload |-> Payload([k \in DOMAIN data.m |-> JSONValue(data.m[k])]),
          err |-> NoErr]
    ELSE [payload |-> NilPayload,
          err |-> "json: cannot unmarshal into Go value of type map"]

\* a failed SetOldData leaves the nil map in the entry
SetOldDataMutant(entry, data) ==
    IF MarshalErr(data) # NoErr
    THEN [entry |-> [entry EXCEPT !.oldData = NilPayload],
          err |-> MarshalErr(data)]
    ELSE IF Unmarshal(data).err # NoErr
    THEN [entry |-> [entry EXCEPT !.oldData = NilPayload],
          err |-> Unmarshal(data).err]
    ELSE [entry |-> [entry EXCEPT !.oldData = Unmarshal(data).payload],
          err |-> NoErr]

SetOldData(entry, data) ==
    IF MarshalErr(data) # NoErr THEN [entry |-> entry, err |-> MarshalErr(data)]
    ELSE IF Unmarshal(data).err # NoErr
    THEN [entry |-> entry, err |-> Unmarshal(data).err]
    ELSE [entry |-> [entry EXCEPT !.oldData = Unmarshal(data).payload],
          err |-> NoErr]

SetNewData(entry, data) ==
    IF MarshalErr(data) # NoErr THEN [entry |-> entry, err |-> MarshalErr(data)]
    ELSE IF Unmarshal(data).err # NoErr
    THEN [entry |-> entry, err |-> Unmarshal(data).err]
    ELSE [entry |-> [entry EXCEPT !.newData = Unmarshal(data).payload],
          err |-> NoErr]

(***************************************************************************)
(* repository: the audit store.  es is the entries map, kept as the        *)
(* sequence of the saved entries in the order of their Save calls.         *)
(***************************************************************************)
\* the map is keyed by the entity id: an entry replaces the earlier entries
\* of its entity
SaveByEntityMutant(es, entry, saveOk) ==
    LET OfOther(e) == e.entityID # entry.entityID
    IN  [entries |-> Append(SelectSeq(es, OfOther), entry), err |-> NoErr]

\* an entry is stored although Save reports an error
SaveMutant(es, entry, saveOk) ==
    [entries |-> Append(es, entry),
     err |-> IF saveOk THEN NoErr ELSE "audit store unavailable"]

\* Repository.Save: the in-memory store always stores and returns nil; any
\* other implementation of the interface may return an error instead
Save(es, entry, saveOk) ==
    IF saveOk THEN [entries |-> Append(es, entry), err |-> NoErr]
    ELSE [entries |-> es, err |-> "audit store unavailable"]

\* every sequence that lists each element of S once
Orderings(S) ==
    {f \in [1..Cardinality(S) -> S] :
        \A i, j \in 1..Cardinality(S) : i # j => f[i] # f[j]}

\* FindByEntityID looks at the entity id only
MatchingMutant(es, entityType, entityID) ==
    {i \in 1..Len(es) : es[i].entityID = entityID}

Matching(es, entityType, entityID) ==
    {i \in 1..Len(es) :
        es[i].entityType = entityType /\ es[i].entityID = entityID}

\* FindByEntityID: ranges over a Go map, so the matching entries come in any
\* order; result stays the nil slice when nothing matches.  An entry is
\* named by its position in es.
FindByEntityID(es, entityType, entityID) ==
    IF Matching(es, entityType, entityID) = {}
    THEN {[isNil |-> TRUE, items |-> <<>>]}
    ELSE {[isNil |-> FALSE, items |-> f] :
              f \in Orderings(Matching(es, entityType, entityID))}

\* ToDate excludes the entries made at ToDate itself
matchesFilterMutant(entry, filter) ==
    /\ filter.EntityType.isNil \/ entry.entityType = filter.EntityType.v
    /\ filter.EntityID.isNil \/ entry.entityID = filter.EntityID.v
    /\ filter.Action.isNil \/ entry.action = filter.Action.v
    /\ filter.UserID.isNil \/ entry.userID = filter.UserID.v
    /\ filter.FromDate.isNil \/ ~(entry.timestamp < filter.FromDate.v)
    /\ filter.ToDate.isNil \/ entry.timestamp < filter.ToDate.v

\* time.Time's Before is <, After is >
matchesFilter(entry, filter) ==
    IF ~filter.EntityType.isNil /\ entry.entityType # filter.EntityType.v
    THEN FALSE
    ELSE IF ~filter.EntityID.isNil /\ entry.entityID # filter.EntityID.v
    THEN FALSE
    ELSE IF ~filter.Action.isNil /\ entry.action # filter.Action.v
    THEN FALSE
    ELSE IF ~filter.UserID.isNil /\ entry.userID # filter.UserID.v
    THEN FALSE
    ELSE IF ~filter.FromDate.isNil /\ entry.timestamp < filter.FromDate.v
    THEN FALSE
    ELSE IF ~filter.ToDate.isNil /\ entry.timestamp > filter.ToDate.v
    THEN FALSE
    ELSE TRUE

\* FindByFilter: like FindByEntityID, in the order of the map's iteration,
\* and the nil slice when nothing matches
FindByFilter(es, filter) ==
    LET found == {i \in 1..Len(es) : matchesFilter(es[i], filter)}
    IN  IF found = {} THEN {[isNil |-> TRUE, items |-> <<>>]}
        ELSE {[isNil |-> FALSE, items |-> f] : f \in Orderings(found)}

(***************************************************************************)
(* audit: Service                                                          *)
(***************************************************************************)
\* the entry is saved although SetNewData failed
RecordActionMutant(es, entityType, entityID, action, userID, oldData, newData, t, saveOk) ==
    LET entry == NewAuditEntry(NewAuditID(Len(es) + 1), entityType, entityID,
                               action, userID, t)
        o == IF oldData.kind # "nil" THEN SetOldData(entry, oldData)
             ELSE [entry |-> entry, err |-> NoErr]
        n == IF newData.kind # "nil" THEN SetNewData(o.entry, newData)
             ELSE [entry |-> o.entry, err |-> NoErr]
    IN  IF o.err # NoErr THEN [entries |-> es, err |-> o.err]
        ELSE IF n.err # NoErr
        THEN [entries |-> Append(es, n.entry), err |-> n.err]
        ELSE Save(es, n.entry, saveOk)

\* audit.Service.RecordAction: NewAuditEntry, SetOldData and SetNewData for
\* the arguments that are not nil, then repository.Save
RecordAction(es, entityType, entityID, action, userID, oldData, newData, t, saveOk) ==
    LET entry == NewAuditEntry(NewAuditID(Len(es) + 1), entityType, entityID,
                               action, userID, t)
        o == IF oldData.kind # "nil" THEN SetOldData(entry, oldData)
             ELSE [entry |-> entry, err |-> NoErr]
        n == IF newData.kind # "nil" THEN SetNewData(o.entry, newData)
             ELSE [entry |-> o.entry, err |-> NoErr]
    IN  IF o.err # NoErr THEN [entries |-> es, err |-> o.err]
        ELSE IF n.err # NoErr THEN [entries |-> es, err |-> n.err]
        ELSE Save(es, n.entry, saveOk)

GetAuditHistory(es, entityType, entityID) ==
    FindByEntityID(es, entityType, entityID)

\* application GetPaymentAuditHistory: the collections it can return
GetPaymentAuditHistory(es, paymentID) ==
    GetAuditHistory(es, EntityTypePayment, paymentID)

\* the snapshot is recorded as the old data
RecordPaymentCreatedMutant(es, paymentID, userID, paymentData, t, saveOk) ==
    RecordAction(es, EntityTypePayment, paymentID, ActionTypeCreated, userID,
                 paymentData, NilData, t, saveOk)

RecordPaymentCreated(es, paymentID, userID, paymentData, t, saveOk) ==
    RecordAction(es, EntityTypePayment, paymentID, ActionTypeCreated, userID,
                 NilData, paymentData, t, saveOk)

\* "pending" is mapped to the updated action
StatusActionMutant(newStatus) ==
    CASE newStatus = "processing" -> ActionTypeProcessed
      [] newStatus = "completed" -> ActionTypeCompleted
      [] newStatus = "failed" -> ActionTypeFailed
      [] newStatus = "cancelled" -> ActionTypeCancelled
      [] newStatus = "pending" -> ActionTypeUpdated
      [] OTHER -> ""

StatusAction(newStatus) ==
    CASE newStatus = "processing" -> ActionTypeProcessed
      [] newStatus = "completed" -> ActionTypeCompleted
      [] newStatus = "failed" -> ActionTypeFailed
      [] newStatus = "cancelled" -> ActionTypeCancelled
      [] OTHER -> ""

\* the two snapshots are exchanged
RecordPaymentStatusChangeMutant(es, paymentID, userID, oldStatus, newStatus, t, saveOk) ==
    IF StatusAction(newStatus) = ""
    THEN [entries |-> es, err |-> "unknown payment status"]
    ELSE RecordAction(es, EntityTypePayment, paymentID, StatusAction(newStatus),
                      userID,
                      MapData([k \in {"status"} |-> Str(newStatus)]),
                      MapData([k \in {"status"} |-> Str(oldStatus)]),
                      t, saveOk)

RecordPaymentStatusChange(es, paymentID, userID, oldStatus, newStatus, t, saveOk) ==
    IF StatusAction(newStatus) = ""
    THEN [entries |-> es, err |-> "unknown payment status"]
    ELSE RecordAction(es, EntityTypePayment, paymentID, StatusAction(newStatus),
                      userID,
                      MapData([k \in {"status"} |-> Str(oldStatus)]),
                      MapData([k \in {"status"} |-> Str(newStatus)]),
                      t, saveOk)

(***************************************************************************)
(* repository: the payment store.  ps is the key set of the payments map;  *)
(* the map holds pointers, and the key of a Payment is its own id, so the  *)
(* value under a key is the Payment object of that id.                     *)
(***************************************************************************)
\* FindByID finds a payment under every id
FindByIDMutant(ps, id) == NoErr

FindByID(ps, id) == IF id \notin ps THEN "payment not found" ELSE NoErr

\* Update takes the payment out of the map
UpdateRemovesMutant(ps, id) == [payments |-> ps \ {id}, err |-> NoErr]

\* Update stores the payment also when its id is absent
UpdateMutant(ps, id) == [payments |-> ps \cup {id}, err |-> NoErr]

Update(ps, id) ==
    IF id \notin ps THEN [payments |-> ps, err |-> "payment not found"]
    ELSE [payments |-> ps \cup {id}, err |-> NoErr]

\* Delete of an absent id reports success
DeleteMutant(ps, id) == [payments |-> ps \ {id}, err |-> NoErr]

Delete(ps, id) ==
    IF id \notin ps THEN [payments |-> ps, err |-> "payment not found"]
    ELSE [payments |-> ps \ {id}, err |-> NoErr]

\* PaymentMemoryRepository.Save: r.payments[p.ID().String()] = p
PaymentSave(ps, id) == [payments |-> ps \cup {id}, err |-> NoErr]

\* FindAll: the stored payments, appended while ranging over the map
FindAll(ps) == Orderings(ps)

(***************************************************************************)
(* repository: the locks.  Each store has one sync.RWMutex; Save, Update   *)
(* and Delete take it with Lock, the Find methods with RLock.              *)
(***************************************************************************)
Stores == {"payment", "audit"}
Unlocked == [writer |-> "none", readers |-> {}]

\* Lock does not wait
CanLockMutant(m) == TRUE

\* RLock does not wait
CanRLockMutant(m) == TRUE

\* Lock returns once no writer and no reader holds the mutex
CanLock(m) == m.writer = "none" /\ m.readers = {}
\* RLock returns once no writer holds the mutex
CanRLock(m) == m.writer = "none"
Lock(m, c) == [m EXCEPT !.writer = c]
\* Unlock leaves the mutex held
UnlockMutant(m, c) == m

Unlock(m, c) == [m EXCEPT !.writer = "none"]
RLock(m, c) == [m EXCEPT !.readers = @ \cup {c}]
RUnlock(m, c) == [m EXCEPT !.readers = @ \ {c}]

\* the store methods, by the store they belong to and the lock they take
PaymentStoreWrites == {"Save", "Update", "Delete"}
PaymentStoreReads == {"FindByID", "FindAll"}
AuditStoreWrites == {"AuditSave"}
AuditStoreReads == {"AuditFindByEntityID"}
StoreWrites == PaymentStoreWrites \cup AuditStoreWrites
StoreOf(op) ==
    IF op \in AuditStoreWrites \cup AuditStoreReads THEN "audit" ELSE "payment"

(***************************************************************************)
(* application: what each operation calls and how it wraps an error        *)
(***************************************************************************)
AppTransitions == {"AppProcessPayment", "AppCompletePayment"}
DomainTransitions ==
    {"ProcessPayment", "CompletePayment", "FailPayment", "CancelPayment"}

\* the entity method an operation invokes
Method(op) ==
    CASE op \in {"AppProcessPayment", "ProcessPayment"} -> "Process"
      [] op \in {"AppCompletePayment", "CompletePayment"} -> "Complete"
      [] op = "FailPayment" -> "Fail"
      [] op = "CancelPayment" -> "Cancel"

\* the error of the domain call as the operation returns it
DomainErr(op, err) ==
    CASE op = "AppProcessPayment" -> "failed to process payment: " \o err
      [] op = "AppCompletePayment" -> "failed to complete payment: " \o err
      [] OTHER -> err

\* the literal new status the application service records
NewStatusLiteral(op) ==
    CASE op = "AppProcessPayment" -> "processing"
      [] op = "AppCompletePayment" -> "completed"

\* the error of GetPayment is dropped
GetPaymentErrMutant(err) == NoErr

\* the error of GetPayment as ProcessPayment and CompletePayment return it
GetPaymentErr(err) == "failed to get payment: " \o err

\* the audit error is dropped
AuditErrMutant(err) == NoErr

AuditErr(err) ==
    IF err # NoErr THEN "failed to record audit: " \o err ELSE NoErr

\* the snapshot CreatePayment records, read from the payment p
PaymentData(p) ==
    MapData([k \in {"id", "amount", "currency", "description", "status",
                    "created_at"} |->
        CASE k = "id" -> Str(p.id)
          [] k = "amount" -> Num(p.amount.value)
          [] k = "currency" -> Str(p.amount.currency)
          [] k = "description" -> Str(p.description)
          [] k = "status" -> Str(StatusString(p.status))
          [] k = "created_at" -> Time(p.createdAt)])

(***************************************************************************)
(* State.                                                                  *)
(***************************************************************************)
VARIABLES
    now,        \* the clock read by time.Now()
    ent,        \* a Payment held by a caller of the entity's methods
    entBefore,  \* that Payment as it was before the last method call
    entCall,    \* the last method call on it and the error it returned
    payments,   \* PaymentMemoryRepository.payments: the keys of the map
    heap,       \* the Payment objects the pointers refer to, by id
    entries,    \* AuditMemoryRepository.entries, in order of Save
    auditRepo,  \* the audit Repository in use: "memory", or one that can fail
    pc,         \* where each caller is in its current operation
    frame,      \* the arguments, locals and results of that operation
    okCalls,    \* per payment, the application-service calls that returned nil
    calls,      \* the number of service calls made so far
    mu          \* the sync.RWMutex of each store: its writer and its readers

entVars == <<ent, entBefore, entCall>>
svcVars == <<payments, heap, entries, auditRepo, pc, frame, okCalls, calls,
            mu>>
vars == <<now, ent, entBefore, entCall, payments, heap, entries, auditRepo,
          pc, frame, okCalls, calls, mu>>

\* the caller starts a new call
Call(c) ==
    /\ pc[c] = "idle"
    /\ calls < MaxCalls
    /\ calls' = calls + 1

NoCall == [op |-> "none", err |-> NoErr]
NoHistory == [isNil |-> TRUE, items |-> <<>>]
NoPayment == NewPayment("", NewAmount(Float(0), "USD").amount, "", 0)
NoEntry == NewAuditEntry("", "", "", "", "", 0)
IdleFrame ==
    [op |-> "", id |-> "", userID |-> "", oldStatus |-> "", auditErr |-> NoErr,
     err |-> NoErr, history |-> NoHistory, amount |-> Float(0),
     currency |-> "", newStatus |-> "", all |-> <<>>, entry |-> NoEntry,
     entityType |-> "", filter |-> EmptyFilter, action |-> "",
     data |-> NilData, description |-> "", service |-> ""]

Tick ==
    /\ now < MaxTime
    /\ now' = now + 1

InitService ==
    /\ payments = {}
    /\ heap = [id \in {} |-> NoPayment]
    /\ entries = <<>>
    /\ pc = [c \in Callers |-> "idle"]
    /\ frame = [c \in Callers |-> IdleFrame]
    /\ okCalls = [id \in RequestIDs |-> <<>>]
    /\ calls = 0
    /\ mu = [s \in Stores |-> Unlocked]

(***************************************************************************)
(* The Payment entity on its own: a payment from NewPayment, then any      *)
(* sequence of transition calls while the clock advances.                  *)
(***************************************************************************)
InitEntity ==
    /\ now = 0
    /\ \E a \in ValidAmounts, d \in Descriptions :
            ent = NewPayment(NewPaymentID(1), a, d, 0)
    /\ entBefore = ent
    /\ entCall = NoCall
    /\ InitService
    /\ auditRepo = "memory"

EntCall(op, r) ==
    /\ entBefore' = ent
    /\ ent' = r.p
    /\ entCall' = [op |-> op, err |-> r.err]
    /\ UNCHANGED <<now, svcVars>>

EntProcess == EntCall("Process", Process(ent, now))
EntComplete == EntCall("Complete", Complete(ent, now))
EntFail == EntCall("Fail", Fail(ent, now))
EntCancel == EntCall("Cancel", Cancel(ent, now))
EntTick == Tick /\ UNCHANGED <<entVars, svcVars>>

NextEntity == EntProcess \/ EntComplete \/ EntFail \/ EntCancel \/ EntTick

SpecEntity == InitEntity /\ [][NextEntity]_vars

(***************************************************************************)
(* The services.  Each caller runs one operation at a time; an operation   *)
(* is a sequence of steps, and the steps of different callers interleave.  *)
(* A call of a store method is one step (it runs under the store's lock);  *)
(* the reads and writes of a Payment's fields happen outside any lock and  *)
(* are steps of their own.                                                 *)
(***************************************************************************)
Init ==
    /\ now = 0
    /\ ent = NoPayment
    /\ entBefore = NoPayment
    /\ entCall = NoCall
    /\ InitService
    /\ auditRepo \in {"memory", "failing"}

\* the results a Save on the audit store can have
SaveOutcomes == IF auditRepo = "memory" THEN {TRUE} ELSE {TRUE, FALSE}

\* the operations of the application service that change a payment
AppMutations == {"AppCreatePayment", "AppProcessPayment", "AppCompletePayment"}

\* the call returns, with the error fr.err
Finish(c, fr) ==
    /\ pc' = [pc EXCEPT ![c] = "done"]
    /\ frame' = [frame EXCEPT ![c] = fr]
    /\ okCalls' = IF fr.op \in AppMutations /\ fr.err = NoErr
                  THEN [okCalls EXCEPT ![fr.id] = Append(@, fr.op)]
                  ELSE okCalls

\* the call goes on at label
Goto(c, label, fr) ==
    /\ pc' = [pc EXCEPT ![c] = label]
    /\ frame' = [frame EXCEPT ![c] = fr]
    /\ UNCHANGED okCalls

\* the call has returned; the caller is free for its next call
Return(c) ==
    /\ pc[c] = "done"
    /\ pc' = [pc EXCEPT ![c] = "idle"]
    /\ frame' = [frame EXCEPT ![c] = IdleFrame]
    /\ UNCHANGED <<now, entVars, mu, payments, heap, entries, auditRepo, okCalls,
                   calls>>

\* application CreatePayment up to the return of the domain CreatePayment:
\* NewAmount, NewPayment, Save
AppCreatePayment(c) ==
    /\ Call(c)
    /\ \E amount \in AmountValues, currency \in Currencies,
          description \in Descriptions, userID \in UserIDs :
        LET a == NewAmount(amount, currency)
            id == NewPaymentID(Cardinality(DOMAIN heap) + 1)
            fr == [IdleFrame EXCEPT !.op = "AppCreatePayment",
                                    !.userID = userID, !.amount = amount,
                                    !.currency = currency,
                                    !.description = description]
        IN  IF a.err # NoErr
            THEN /\ Finish(c, [fr EXCEPT !.err = "invalid amount: " \o a.err])
                 /\ UNCHANGED <<payments, heap>>
            ELSE /\ Cardinality(DOMAIN heap) < MaxPayments
                 /\ heap' = [i \in DOMAIN heap \cup {id} |->
                                IF i = id
                                THEN NewPayment(id, a.amount, description, now)
                                ELSE heap[i]]
                 /\ payments' = payments \cup {id}
                 /\ Goto(c, "record_created", [fr EXCEPT !.id = id])
    /\ UNCHANGED <<now, entVars, mu, entries, auditRepo>>

\* application CreatePayment: the snapshot of p and RecordPaymentCreated
AppRecordCreated(c) ==
    /\ pc[c] = "record_created"
    /\ \E saveOk \in SaveOutcomes :
        LET fr == frame[c]
            r == RecordPaymentCreated(entries, fr.id, fr.userID,
                                      PaymentData(heap[fr.id]), now, saveOk)
        IN  /\ entries' = r.entries
            /\ Finish(c, [fr EXCEPT !.auditErr = r.err,
                                    !.err = AuditErr(r.err)])
    /\ UNCHANGED <<now, entVars, mu, payments, heap, auditRepo, calls>>

\* application ProcessPayment / CompletePayment: GetPayment
AppGetPayment(c) ==
    /\ Call(c)
    /\ \E op \in AppTransitions, paymentID \in RequestIDs, userID \in UserIDs :
        LET fr == [IdleFrame EXCEPT !.op = op,
                                    !.id = PaymentIDFromString(paymentID),
                                    !.userID = userID]
        IN  IF FindByID(payments, fr.id) # NoErr
            THEN Finish(c, [fr EXCEPT !.err =
                                GetPaymentErr(FindByID(payments, fr.id))])
            ELSE Goto(c, "old_status", fr)
    /\ UNCHANGED <<now, entVars, mu, payments, heap, entries, auditRepo>>

\* oldStatus := p.Status().String()
AppOldStatus(c) ==
    /\ pc[c] = "old_status"
    /\ Goto(c, "find", [frame[c] EXCEPT
                           !.oldStatus = StatusString(heap[frame[c].id].status)])
    /\ UNCHANGED <<now, entVars, mu, payments, heap, entries, auditRepo, calls>>

\* domain transition operation: FindByID
Find(c, fr) ==
    /\ IF FindByID(payments, fr.id) # NoErr
       THEN Finish(c, [fr EXCEPT !.err =
                           DomainErr(fr.op, FindByID(payments, fr.id))])
       ELSE Goto(c, "guard", fr)
    /\ UNCHANGED <<now, entVars, mu, payments, heap, entries, auditRepo>>

\* a caller invokes ProcessPayment, CompletePayment, FailPayment or
\* CancelPayment of the payment domain service directly
DomainTransition(c) ==
    /\ Call(c)
    /\ \E op \in DomainTransitions, id \in PaymentIDs :
        Find(c, [IdleFrame EXCEPT !.op = op, !.id = id])

\* the domain operation the application service calls
DomainFind(c) ==
    /\ pc[c] = "find"
    /\ Find(c, frame[c])
    /\ UNCHANGED calls

\* the guard of the entity method reads p.status
DomainGuard(c) ==
    /\ pc[c] = "guard"
    /\ LET fr == frame[c]
           err == Guard(Method(fr.op), heap[fr.id])
       IN  IF err # NoErr
           THEN Finish(c, [fr EXCEPT !.err = DomainErr(fr.op, err)])
           ELSE Goto(c, "set_status", fr)
    /\ UNCHANGED <<now, entVars, mu, payments, heap, entries, auditRepo, calls>>

\* p.status = ...
DomainSetStatus(c) ==
    /\ pc[c] = "set_status"
    /\ heap' = [heap EXCEPT ![frame[c].id] = SetStatus(Method(frame[c].op), @)]
    /\ Goto(c, "set_updated_at", frame[c])
    /\ UNCHANGED <<now, entVars, mu, payments, entries, auditRepo, calls>>

\* p.updatedAt = time.Now()
DomainSetUpdatedAt(c) ==
    /\ pc[c] = "set_updated_at"
    /\ heap' = [heap EXCEPT ![frame[c].id] = SetUpdatedAt(@, now)]
    /\ Goto(c, "update", frame[c])
    /\ UNCHANGED <<now, entVars, mu, payments, entries, auditRepo, calls>>

\* repository.Update, and the return of the domain operation
DomainUpdate(c) ==
    /\ pc[c] = "update"
    /\ LET fr == frame[c]
           r == Update(payments, fr.id)
       IN  /\ payments' = r.payments
           /\ IF r.err # NoErr
              THEN Finish(c, [fr EXCEPT !.err = DomainErr(fr.op, r.err)])
              ELSE IF fr.op \in AppTransitions
              THEN Goto(c, "record_status", fr)
              ELSE Finish(c, fr)
    /\ UNCHANGED <<now, entVars, mu, heap, entries, auditRepo, calls>>

\* application ProcessPayment / CompletePayment: RecordPaymentStatusChange
AppRecordStatusChange(c) ==
    /\ pc[c] = "record_status"
    /\ \E saveOk \in SaveOutcomes :
        LET fr == frame[c]
            r == RecordPaymentStatusChange(entries, fr.id, fr.userID,
                     fr.oldStatus, NewStatusLiteral(fr.op), now, saveOk)
        IN  /\ entries' = r.entries
            /\ Finish(c, [fr EXCEPT !.auditErr = r.err,
                                    !.err = AuditErr(r.err)])
    /\ UNCHANGED <<now, entVars, mu, payments, heap, auditRepo, calls>>

AppGetPaymentAuditHistory(c) ==
    /\ Call(c)
    /\ \E paymentID \in RequestIDs :
       \E h \in GetPaymentAuditHistory(entries, paymentID) :
        Finish(c, [IdleFrame EXCEPT !.op = "AppGetPaymentAuditHistory",
                                    !.id = paymentID, !.history = h])
    /\ UNCHANGED <<now, entVars, mu, payments, heap, entries, auditRepo>>

ServiceTick == Tick /\ UNCHANGED <<entVars, svcVars>>

\* the steps of the application service
AppStep(c) ==
    \/ AppCreatePayment(c)
    \/ AppRecordCreated(c)
    \/ AppGetPayment(c)
    \/ AppOldStatus(c)
    \/ DomainFind(c)
    \/ DomainGuard(c)
    \/ DomainSetStatus(c)
    \/ DomainSetUpdatedAt(c)
    \/ DomainUpdate(c)
    \/ AppRecordStatusChange(c)
    \/ Return(c)

Next ==
    \/ \E c \in Callers : AppStep(c) \/ DomainTransition(c)
    \/ ServiceTick

\* concurrent callers of the application service and of the domain service
Spec == Init /\ [][Next]_vars

NextApp ==
    \/ AppStep("c1")
    \/ AppGetPaymentAuditHistory("c1")
    \/ ServiceTick

\* a single caller that uses the application service only
SpecApp == Init /\ [][NextApp]_vars

(***************************************************************************)
(* The payment domain service on its own: concurrent callers create        *)
(* payments and run transitions on them, while a caller of the store may   *)
(* delete a payment.                                                       *)
(***************************************************************************)
InitDomain ==
    /\ now = 0
    /\ ent = NoPayment
    /\ entBefore = NoPayment
    /\ entCall = NoCall
    /\ InitService
    /\ auditRepo = "memory"

\* payment.Service.CreatePayment: NewPayment, then repository.Save
DomainCreatePayment(c) ==
    /\ Call(c)
    /\ Cardinality(DOMAIN heap) < MaxPayments
    /\ \E amount \in ValidAmounts, description \in Descriptions :
        LET id == NewPaymentID(Cardinality(DOMAIN heap) + 1)
        IN  /\ heap' = [i \in DOMAIN heap \cup {id} |->
                           IF i = id
                           THEN NewPayment(id, amount, description, now)
                           ELSE heap[i]]
            /\ payments' = PaymentSave(payments, id).payments
            /\ Finish(c, [IdleFrame EXCEPT !.op = "CreatePayment", !.id = id,
                                           !.amount = amount.value,
                                           !.currency = amount.currency,
                                           !.description = description,
                                           !.err = PaymentSave(payments, id).err])
    /\ UNCHANGED <<now, entVars, mu, entries, auditRepo>>

\* a caller of the payment store calls repository.Delete
DeletePayment(c) ==
    /\ Call(c)
    /\ \E id \in PaymentIDs :
        /\ payments' = Delete(payments, id).payments
        /\ Finish(c, [IdleFrame EXCEPT !.op = "Delete", !.id = id,
                                       !.err = Delete(payments, id).err])
    /\ UNCHANGED <<now, entVars, mu, heap, entries, auditRepo>>

DomainStep(c) ==
    \/ DomainCreatePayment(c)
    \/ DomainTransition(c)
    \/ DomainGuard(c)
    \/ DomainSetStatus(c)
    \/ DomainSetUpdatedAt(c)
    \/ DomainUpdate(c)
    \/ DeletePayment(c)
    \/ Return(c)

NextDomain ==
    \/ \E c \in Callers : DomainStep(c)
    \/ ServiceTick

\* concurrent callers of the payment domain service and of the store's Delete
SpecDomain == InitDomain /\ [][NextDomain]_vars

NextAppPair == \E c \in Callers : AppStep(c)

\* concurrent callers that use the application service only, over the
\* in-memory stores
SpecAppPair == InitDomain /\ [][NextAppPair]_vars

(***************************************************************************)
(* The core used by one caller: the application service and the payment    *)
(* domain service, over the in-memory stores.                              *)
(***************************************************************************)
\* payment.Service.GetPayment
DomainGetPayment(c) ==
    /\ Call(c)
    /\ \E id \in RequestIDs :
        Finish(c, [IdleFrame EXCEPT !.op = "GetPayment", !.id = id,
                                    !.err = FindByID(payments, id)])
    /\ UNCHANGED <<now, entVars, mu, payments, heap, entries, auditRepo>>

NextCore ==
    \/ AppStep("c1")
    \/ AppGetPaymentAuditHistory("c1")
    \/ DomainCreatePayment("c1")
    \/ DomainTransition("c1")
    \/ DomainGetPayment("c1")
    \/ ServiceTick

\* a single caller of the application service and of the domain service
SpecCore == InitDomain /\ [][NextCore]_vars

(***************************************************************************)
(* The two stores on their own: concurrent callers invoke the repository   *)
(* methods.  A method is three steps: it takes the store's lock, runs its  *)
(* body, and releases the lock as it returns (defer).                      *)
(***************************************************************************)
\* caller c is inside a method of a store, between its lock and its unlock
InSection(c, store) ==
    pc[c] \in {"body", "unlock"} /\ StoreOf(frame[c].op) = store

\* the body of c's method runs while another caller is inside a method of
\* the same store and one of the two writes the map: a data race
Race(c) ==
    \E d \in Callers \ {c} :
        /\ InSection(d, StoreOf(frame[c].op))
        /\ frame[c].op \in StoreWrites \/ frame[d].op \in StoreWrites

\* what a racing write can leave in the payments map
RacePayments(ps, id) == SUBSET (ps \cup {id})
\* what a racing write can leave in the entries map
RaceEntries(es, entry) == {Append(es, entry), es, <<entry>>}

\* a caller calls Save with a payment it has just made with NewPayment
RepoSaveNew(c) ==
    /\ Call(c)
    /\ Cardinality(DOMAIN heap) < MaxStored
    /\ \E amount \in ValidAmounts, description \in Descriptions :
        LET id == NewPaymentID(Cardinality(DOMAIN heap) + 1)
        IN  /\ heap' = [i \in DOMAIN heap \cup {id} |->
                           IF i = id
                           THEN NewPayment(id, amount, description, now)
                           ELSE heap[i]]
            /\ Goto(c, "lock", [IdleFrame EXCEPT !.op = "Save", !.id = id])
    /\ UNCHANGED <<now, entVars, mu, payments, entries, auditRepo>>

\* a caller calls Save or Update with a payment it holds
RepoSaveOrUpdate(c) ==
    /\ Call(c)
    /\ \E op \in {"Save", "Update"}, id \in DOMAIN heap :
        Goto(c, "lock", [IdleFrame EXCEPT !.op = op, !.id = id])
    /\ UNCHANGED <<now, entVars, mu, payments, heap, entries, auditRepo>>

\* a caller calls Delete with an id
RepoDelete(c) ==
    /\ Call(c)
    /\ \E id \in StoredIDs :
        Goto(c, "lock", [IdleFrame EXCEPT !.op = "Delete", !.id = id])
    /\ UNCHANGED <<now, entVars, mu, payments, heap, entries, auditRepo>>

\* a caller calls FindByID with an id
RepoFindByID(c) ==
    /\ Call(c)
    /\ \E id \in StoredIDs :
        Goto(c, "lock", [IdleFrame EXCEPT !.op = "FindByID", !.id = id])
    /\ UNCHANGED <<now, entVars, mu, payments, heap, entries, auditRepo>>

RepoFindAll(c) ==
    /\ Call(c)
    /\ Goto(c, "lock", [IdleFrame EXCEPT !.op = "FindAll"])
    /\ UNCHANGED <<now, entVars, mu, payments, heap, entries, auditRepo>>

\* a caller calls the audit store's Save with an entry it has just made
RepoAuditSave(c) ==
    /\ Call(c)
    /\ \E entityID \in StoredIDs :
        LET entry == NewAuditEntry(NewAuditID(calls + 1), EntityTypePayment,
                                   entityID, ActionTypeCreated, "user-123", now)
        IN  Goto(c, "lock", [IdleFrame EXCEPT !.op = "AuditSave",
                                              !.id = entry.id,
                                              !.entry = entry])
    /\ UNCHANGED <<now, entVars, mu, payments, heap, entries, auditRepo>>

\* r.mu.Lock() or r.mu.RLock()
StoreLock(c) ==
    /\ pc[c] = "lock"
    /\ LET s == StoreOf(frame[c].op)
       IN  IF frame[c].op \in StoreWrites
           THEN /\ CanLock(mu[s])
                /\ mu' = [mu EXCEPT ![s] = Lock(@, c)]
           ELSE /\ CanRLock(mu[s])
                /\ mu' = [mu EXCEPT ![s] = RLock(@, c)]
    /\ Goto(c, "body", frame[c])
    /\ UNCHANGED <<now, entVars, payments, heap, entries, auditRepo, calls>>

\* the body of Save, Update or Delete of the payment store
PaymentWriteBody(c) ==
    /\ pc[c] = "body"
    /\ frame[c].op \in PaymentStoreWrites
    /\ LET id == frame[c].id
           r == CASE frame[c].op = "Save" -> PaymentSave(payments, id)
                  [] frame[c].op = "Update" -> Update(payments, id)
                  [] frame[c].op = "Delete" -> Delete(payments, id)
       IN  /\ payments' \in IF Race(c) THEN RacePayments(payments, id)
                                       ELSE {r.payments}
           /\ Goto(c, "unlock", [frame[c] EXCEPT !.err = r.err])
    /\ UNCHANGED <<now, entVars, mu, heap, entries, auditRepo, calls>>

\* the body of FindByID of the payment store
FindByIDBody(c) ==
    /\ pc[c] = "body"
    /\ frame[c].op = "FindByID"
    /\ \E err \in IF Race(c) THEN {NoErr, "payment not found"}
                             ELSE {FindByID(payments, frame[c].id)} :
        Goto(c, "unlock", [frame[c] EXCEPT !.err = err])
    /\ UNCHANGED <<now, entVars, mu, payments, heap, entries, auditRepo, calls>>

\* the body of FindAll of the payment store
FindAllBody(c) ==
    /\ pc[c] = "body"
    /\ frame[c].op = "FindAll"
    /\ \E ps \in IF Race(c) THEN SUBSET DOMAIN heap ELSE {payments} :
       \E all \in FindAll(ps) :
        Goto(c, "unlock", [frame[c] EXCEPT !.all = all])
    /\ UNCHANGED <<now, entVars, mu, payments, heap, entries, auditRepo, calls>>

\* the body of Save of the audit store
AuditSaveBody(c) ==
    /\ pc[c] = "body"
    /\ frame[c].op = "AuditSave"
    /\ LET r == Save(entries, frame[c].entry, TRUE)
       IN  /\ entries' \in IF Race(c) THEN RaceEntries(entries, frame[c].entry)
                                      ELSE {r.entries}
           /\ Goto(c, "unlock", [frame[c] EXCEPT !.err = r.err])
    /\ UNCHANGED <<now, entVars, mu, payments, heap, auditRepo, calls>>

\* the deferred r.mu.Unlock() or r.mu.RUnlock(), and the return
StoreUnlock(c) ==
    /\ pc[c] = "unlock"
    /\ LET s == StoreOf(frame[c].op)
       IN  mu' = [mu EXCEPT ![s] = IF frame[c].op \in StoreWrites
                                   THEN Unlock(@, c) ELSE RUnlock(@, c)]
    /\ Finish(c, frame[c])
    /\ UNCHANGED <<now, entVars, payments, heap, entries, auditRepo, calls>>

\* the steps of the methods that C14 is about: Save and the Find methods
SaveStep(c) ==
    \/ RepoSaveNew(c)
    \/ RepoFindByID(c)
    \/ RepoFindAll(c)
    \/ RepoAuditSave(c)
    \/ StoreLock(c)
    \/ PaymentWriteBody(c)
    \/ FindByIDBody(c)
    \/ FindAllBody(c)
    \/ AuditSaveBody(c)
    \/ StoreUnlock(c)
    \/ Return(c)

NextSave == \E c \in Callers : SaveStep(c)

\* concurrent callers that save new payments and new audit entries and read
SpecSave == InitDomain /\ [][NextSave]_vars

StoreStep(c) ==
    \/ SaveStep(c)
    \/ RepoSaveOrUpdate(c)
    \/ RepoDelete(c)

NextStore == \E c \in Callers : StoreStep(c)

\* concurrent callers of every method of the payment store
SpecStore == InitDomain /\ [][NextStore]_vars

(***************************************************************************)
(* Both stores with their reads and writes: the calls that C32 is about.   *)
(***************************************************************************)
\* a caller calls FindByEntityID of the audit store
RepoAuditFind(c) ==
    /\ Call(c)
    /\ \E entityID \in {NewPaymentID(1)} :
        Goto(c, "lock", [IdleFrame EXCEPT !.op = "AuditFindByEntityID",
                                          !.entityType = EntityTypePayment,
                                          !.id = entityID])
    /\ UNCHANGED <<now, entVars, mu, payments, heap, entries, auditRepo>>

\* the body of FindByEntityID of the audit store; in a race with a Save it
\* may see the map with or without the entries
AuditFindBody(c) ==
    /\ pc[c] = "body"
    /\ frame[c].op = "AuditFindByEntityID"
    /\ \E es \in IF Race(c) THEN {entries, <<>>} ELSE {entries} :
       \E h \in FindByEntityID(es, frame[c].entityType, frame[c].id) :
        Goto(c, "unlock", [frame[c] EXCEPT !.history = h])
    /\ UNCHANGED <<now, entVars, mu, payments, heap, entries, auditRepo, calls>>

NextLocks ==
    \E c \in Callers :
    \/ RepoSaveNew(c)
    \/ RepoSaveOrUpdate(c)
    \/ RepoDelete(c)
    \/ RepoFindByID(c)
    \/ RepoAuditSave(c)
    \/ RepoAuditFind(c)
    \/ StoreLock(c)
    \/ PaymentWriteBody(c)
    \/ FindByIDBody(c)
    \/ AuditSaveBody(c)
    \/ AuditFindBody(c)
    \/ StoreUnlock(c)
    \/ Return(c)

\* concurrent callers of the reads and writes of both stores
SpecLocks == InitDomain /\ [][NextLocks]_vars

(***************************************************************************)
(* The application's ProcessPayment with the store methods it calls run    *)
(* step by step: each FindByID, Update and Save takes its store's lock,    *)
(* runs its body and releases the lock as it returns, before the service   *)
(* goes on.  Callers also delete payments, so that every error path of the *)
(* operation is taken.  frame.service names the operation on whose behalf  *)
(* a store method runs.                                                    *)
(***************************************************************************)
\* application ProcessPayment, up to the call of FindByID in GetPayment
LockedProcessPayment(c) ==
    /\ Call(c)
    /\ \E id \in StoredIDs :
        Goto(c, "lock", [IdleFrame EXCEPT !.service = "AppProcessPayment",
                                          !.op = "FindByID", !.id = id,
                                          !.userID = "user-123"])
    /\ UNCHANGED <<now, entVars, mu, payments, heap, entries, auditRepo>>

\* ProcessPayment after a store method has returned to it: it returns the
\* wrapped error, or goes on to its next store call (FindByID of the domain
\* service; p.Process() and Update; Save of the audit entry), or returns nil
LockedProcessPaymentStep(c) ==
    /\ pc[c] = "done"
    /\ frame[c].service = "AppProcessPayment"
    /\ LET fr == frame[c]
           end == [fr EXCEPT !.op = fr.service, !.service = ""]
           r == Process(heap[fr.id], now)
           saved == RecordPaymentStatusChange(entries, fr.id, fr.userID,
                        fr.oldStatus, "processing", now, TRUE).entries
       IN  IF fr.err # NoErr
           THEN /\ Finish(c, [end EXCEPT !.err =
                        IF fr.op = "FindByID" /\ fr.oldStatus = ""
                        THEN GetPaymentErr(fr.err)
                        ELSE DomainErr(fr.service, fr.err)])
                /\ UNCHANGED heap
           ELSE IF fr.op = "FindByID" /\ fr.oldStatus = ""
           THEN /\ Goto(c, "lock", [fr EXCEPT !.oldStatus =
                                        StatusString(heap[fr.id].status)])
                /\ UNCHANGED heap
           ELSE IF fr.op = "FindByID" /\ r.err # NoErr
           THEN /\ Finish(c, [end EXCEPT !.err = DomainErr(fr.service, r.err)])
                /\ UNCHANGED heap
           ELSE IF fr.op = "FindByID"
           THEN /\ heap' = [heap EXCEPT ![fr.id] = r.p]
                /\ Goto(c, "lock", [fr EXCEPT !.op = "Update"])
           ELSE IF fr.op = "Update"
           THEN /\ Goto(c, "lock", [fr EXCEPT !.op = "AuditSave",
                                              !.entry = saved[Len(saved)]])
                /\ UNCHANGED heap
           ELSE /\ Finish(c, end)
                /\ UNCHANGED heap
    /\ UNCHANGED <<now, entVars, mu, payments, entries, auditRepo, calls>>

\* the steps of a call that has begun, but for the wait for a lock
CallRuns(c) ==
    \/ PaymentWriteBody(c)
    \/ FindByIDBody(c)
    \/ AuditSaveBody(c)
    \/ StoreUnlock(c)
    \/ LockedProcessPaymentStep(c)

NextFair ==
    \E c \in Callers :
    \/ RepoSaveNew(c)
    \/ RepoDelete(c)
    \/ LockedProcessPayment(c)
    \/ StoreLock(c)
    \/ CallRuns(c)
    \/ frame[c].service = "" /\ Return(c)

\* concurrent callers of ProcessPayment, Save and Delete.  The scheduler
\* runs every goroutine that can take a step (weak fairness of the steps of
\* a call), and the lock is fair: a caller whose Lock or RLock can be
\* granted again and again is granted it (strong fairness of StoreLock).
SpecFair ==
    /\ InitDomain
    /\ [][NextFair]_vars
    /\ \A c \in Callers : WF_vars(CallRuns(c)) /\ SF_vars(StoreLock(c))

(***************************************************************************)
(* The audit domain service on its own: callers record status changes      *)
(* with any status strings.                                                *)
(***************************************************************************)
\* the status strings a caller of the audit service passes
OldStatusArgs == {"pending", "processing"}
NewStatusArgs ==
    {"pending", "processing", "completed", "failed", "cancelled", "unknown",
     "unknown-value"}

\* audit.Service.RecordPaymentStatusChange
AuditRecordPaymentStatusChange(c) ==
    /\ Call(c)
    /\ \E paymentID \in PaymentIDs, oldStatus \in OldStatusArgs,
          newStatus \in NewStatusArgs, saveOk \in SaveOutcomes :
        LET r == RecordPaymentStatusChange(entries, paymentID, "user-123",
                                           oldStatus, newStatus, now, saveOk)
        IN  /\ entries' = r.entries
            /\ Finish(c, [IdleFrame EXCEPT
                              !.op = "RecordPaymentStatusChange",
                              !.id = paymentID, !.userID = "user-123",
                              !.oldStatus = oldStatus,
                              !.newStatus = newStatus, !.err = r.err])
    /\ UNCHANGED <<now, entVars, mu, payments, heap, auditRepo>>

NextAudit == AuditRecordPaymentStatusChange("c1") \/ Return("c1")

\* a caller of the audit domain service, over the in-memory audit store
SpecAudit == InitDomain /\ [][NextAudit]_vars

(***************************************************************************)
(* The in-memory audit store on its own: a caller saves new entries and    *)
(* queries them by entity and by filter.                                   *)
(***************************************************************************)
\* what the callers of the audit store pass
EntityTypes == {EntityTypePayment, "order"}
EntityIDs == {"payment-123", "payment-456"}
Actions == {ActionTypeCreated, ActionTypeProcessed}
Filters ==
    {AuditFilter(entityType, entityID, action, userID, fromDate, toDate) :
        entityType \in {NilPtr(""), Ptr(EntityTypePayment)},
        entityID \in {NilPtr(""), Ptr("payment-123")},
        action \in {NilPtr(""), Ptr(ActionTypeCreated)},
        userID \in {NilPtr(""), Ptr("user-123"), Ptr("user-456")},
        fromDate \in {NilPtr(0), Ptr(1)},
        toDate \in {NilPtr(0), Ptr(0)}}

\* Save of an entry the caller has just made with NewAuditEntry
AuditStoreSave(c) ==
    /\ pc[c] = "idle"
    /\ Len(entries) < MaxEntries
    /\ \E entityType \in EntityTypes, entityID \in EntityIDs,
          action \in Actions :
        LET entry == NewAuditEntry(NewAuditID(Len(entries) + 1), entityType,
                                   entityID, action, "user-123", now)
            r == Save(entries, entry, TRUE)
        IN  /\ entries' = r.entries
            /\ Finish(c, [IdleFrame EXCEPT !.op = "AuditSave",
                                           !.id = entry.id,
                                           !.entry = entry,
                                           !.err = r.err])
    /\ UNCHANGED <<now, entVars, mu, payments, heap, auditRepo, calls>>

AuditStoreFindByEntityID(c) ==
    /\ pc[c] = "idle"
    /\ \E entityType \in EntityTypes, entityID \in EntityIDs :
       \E h \in FindByEntityID(entries, entityType, entityID) :
        Finish(c, [IdleFrame EXCEPT !.op = "FindByEntityID",
                                    !.entityType = entityType,
                                    !.id = entityID,
                                    !.history = h])
    /\ UNCHANGED <<now, entVars, mu, payments, heap, entries, auditRepo,
                   calls>>

AuditStoreFindByFilter(c) ==
    /\ pc[c] = "idle"
    /\ \E filter \in Filters :
       \E h \in FindByFilter(entries, filter) :
        Finish(c, [IdleFrame EXCEPT !.op = "FindByFilter",
                                    !.filter = filter,
                                    !.history = h])
    /\ UNCHANGED <<now, entVars, mu, payments, heap, entries, auditRepo,
                   calls>>

NextAuditStore ==
    \/ AuditStoreSave("c1")
    \/ AuditStoreFindByEntityID("c1")
    \/ AuditStoreFindByFilter("c1")
    \/ Return("c1")
    \/ ServiceTick

\* a caller of the in-memory audit store, with a clock
SpecAuditStore == InitDomain /\ [][NextAuditStore]_vars

(***************************************************************************)
(* The AuditEntry entity on its own: a caller makes an entry with          *)
(* NewAuditEntry and sets its payloads.                                    *)
(***************************************************************************)
\* the values a caller passes to SetOldData and SetNewData
DataValues ==
    {NilData,
     MapData([k \in {"status"} |-> Str("pending")]),
     StructData([k \in {"id", "at"} |->
                    IF k = "id" THEN Str("payment-123") ELSE Time(0)]),
     MapData([k \in {"amount"} |-> Num(NaN)]),
     OtherData("scalar"), OtherData("slice"), OtherData("chan"),
     OtherData("func")}

\* audit.NewAuditEntry
AuditEntryNew(c) ==
    /\ Call(c)
    /\ \E entityType \in EntityTypes, entityID \in EntityIDs,
          action \in Actions, userID \in UserIDs :
        Finish(c, [IdleFrame EXCEPT
                       !.op = "NewAuditEntry",
                       !.entityType = entityType,
                       !.id = entityID,
                       !.action = action,
                       !.userID = userID,
                       !.entry = NewAuditEntry(NewAuditID(calls + 1),
                                               entityType, entityID, action,
                                               userID, now)])
    /\ UNCHANGED <<now, entVars, mu, payments, heap, entries, auditRepo>>

\* AuditEntry.SetOldData on the entry the caller holds
AuditEntrySetOldData(c) ==
    /\ pc[c] = "done"
    /\ frame[c].op \in {"NewAuditEntry", "SetOldData", "SetNewData"}
    /\ \E data \in DataValues :
        LET r == SetOldData(frame[c].entry, data)
        IN  Finish(c, [frame[c] EXCEPT !.op = "SetOldData", !.data = data,
                                       !.entry = r.entry, !.err = r.err])
    /\ UNCHANGED <<now, entVars, mu, payments, heap, entries, auditRepo,
                   calls>>

\* AuditEntry.SetNewData on the entry the caller holds
AuditEntrySetNewData(c) ==
    /\ pc[c] = "done"
    /\ frame[c].op \in {"NewAuditEntry", "SetOldData", "SetNewData"}
    /\ \E data \in DataValues :
        LET r == SetNewData(frame[c].entry, data)
        IN  Finish(c, [frame[c] EXCEPT !.op = "SetNewData", !.data = data,
                                       !.entry = r.entry, !.err = r.err])
    /\ UNCHANGED <<now, entVars, mu, payments, heap, entries, auditRepo,
                   calls>>

NextEntry ==
    \/ AuditEntryNew("c1")
    \/ AuditEntrySetOldData("c1")
    \/ AuditEntrySetNewData("c1")
    \/ Return("c1")
    \/ ServiceTick

\* a caller that makes audit entries and sets their payloads
SpecEntry == InitDomain /\ [][NextEntry]_vars

(***************************************************************************)
(* The audit domain service called with payloads of any kind.              *)
(***************************************************************************)
\* audit.Service.RecordAction
AuditRecordAction(c) ==
    /\ Call(c)
    /\ Len(entries) < MaxEntries
    /\ \E action \in Actions, oldData \in DataValues, newData \in DataValues,
          saveOk \in SaveOutcomes :
        LET r == RecordAction(entries, EntityTypePayment, "payment-123",
                              action, "user-123", oldData, newData, now,
                              saveOk)
        IN  /\ entries' = r.entries
            /\ Finish(c, [IdleFrame EXCEPT
                              !.op = "RecordAction",
                              !.entityType = EntityTypePayment,
                              !.id = "payment-123", !.userID = "user-123",
                              !.action = action,
                              !.data = [oldData |-> oldData,
                                        newData |-> newData],
                              !.err = r.err])
    /\ UNCHANGED <<now, entVars, mu, payments, heap, auditRepo>>

NextRecord == AuditRecordAction("c1") \/ Return("c1")

\* a caller of RecordAction, over the in-memory audit store
SpecRecord == InitDomain /\ [][NextRecord]_vars

(***************************************************************************)
(* Claims about the entity's transitions (checked under SpecEntity).       *)
(***************************************************************************)
EntOk == entCall.err = NoErr

\* C3: Payment.Process succeeds if and only if the status is pending, and
\* then the status is processing; from every other status it returns the
\* error "payment can only be processed from pending status".
C3_ProcessOnlyFromPending ==
    entCall.op = "Process" =>
        /\ EntOk <=> entBefore.status = PaymentStatusPending
        /\ EntOk => ent.status = PaymentStatusProcessing
        /\ ~EntOk => /\ entBefore.status \in
                            {PaymentStatusProcessing, PaymentStatusCompleted,
                             PaymentStatusFailed, PaymentStatusCancelled}
                     /\ entCall.err =
                            "payment can only be processed from pending status"

C3_Witness ==
    /\ entCall.op = "Process"
    /\ EntOk
    /\ entBefore.status = PaymentStatusPending
    /\ ent.status = PaymentStatusProcessing

\* C4: Payment.Complete succeeds if and only if the status is processing,
\* and then the status is completed; from every other status it returns the
\* error "payment can only be completed from processing status".
C4_CompleteOnlyFromProcessing ==
    entCall.op = "Complete" =>
        /\ EntOk <=> entBefore.status = PaymentStatusProcessing
        /\ EntOk => ent.status = PaymentStatusCompleted
        /\ ~EntOk => /\ entBefore.status \in
                            {PaymentStatusPending, PaymentStatusCompleted,
                             PaymentStatusFailed, PaymentStatusCancelled}
                     /\ entCall.err =
                            "payment can only be completed from processing status"

C4_Witness ==
    /\ entCall.op = "Complete"
    /\ EntOk
    /\ entBefore.status = PaymentStatusProcessing
    /\ ent.status = PaymentStatusCompleted

\* C5: Payment.Fail succeeds from pending, processing, failed and cancelled
\* and leaves the status failed; it is rejected only from completed, with
\* the error "completed payment cannot be failed".
C5_FailBlockedOnlyFromCompleted ==
    entCall.op = "Fail" =>
        /\ EntOk <=> entBefore.status \in
                        {PaymentStatusPending, PaymentStatusProcessing,
                         PaymentStatusFailed, PaymentStatusCancelled}
        /\ EntOk => ent.status = PaymentStatusFailed
        /\ ~EntOk => /\ entBefore.status = PaymentStatusCompleted
                     /\ entCall.err = "completed payment cannot be failed"

C5_Witness ==
    /\ entCall.op = "Fail"
    /\ EntOk
    /\ entBefore.status = PaymentStatusFailed
    /\ ent.status = PaymentStatusFailed

\* C6: Payment.Cancel succeeds from pending, failed and cancelled and leaves
\* the status cancelled; it is rejected from processing and from completed,
\* with the error "payment cannot be cancelled in current status".
C6_CancelBlockedFromProcessingAndCompleted ==
    entCall.op = "Cancel" =>
        /\ EntOk <=> entBefore.status \in
                        {PaymentStatusPending, PaymentStatusFailed,
                         PaymentStatusCancelled}
        /\ EntOk => ent.status = PaymentStatusCancelled
        /\ ~EntOk => /\ entBefore.status \in
                            {PaymentStatusProcessing, PaymentStatusCompleted}
                     /\ entCall.err =
                            "payment cannot be cancelled in current status"

C6_Witness ==
    /\ entCall.op = "Cancel"
    /\ ~EntOk
    /\ entBefore.status = PaymentStatusProcessing
    /\ ent.status = PaymentStatusProcessing

\* the (operation, status) pairs outside the transition table
RejectedPairs ==
    {<<"Process", s>> : s \in PaymentStatuses \ {PaymentStatusPending}}
    \cup {<<"Complete", s>> : s \in PaymentStatuses \ {PaymentStatusProcessing}}
    \cup {<<"Fail", PaymentStatusCompleted>>}
    \cup {<<"Cancel", PaymentStatusProcessing>>,
          <<"Cancel", PaymentStatusCompleted>>}

\* C7: a transition call whose guard rejects the current status returns an
\* error and leaves every field of the payment as it was: status, updatedAt,
\* createdAt, amount, description and id.
C7_RejectedCallChangesNothing ==
    <<entCall.op, entBefore.status>> \in RejectedPairs =>
        /\ ~EntOk
        /\ ent.status = entBefore.status
        /\ ent.updatedAt = entBefore.updatedAt
        /\ ent.createdAt = entBefore.createdAt
        /\ ent.amount = entBefore.amount
        /\ ent.description = entBefore.description
        /\ ent.id = entBefore.id

\* a rejected call made when the clock has moved past updatedAt
C7_Witness ==
    /\ <<entCall.op, entBefore.status>> \in RejectedPairs
    /\ ~EntOk
    /\ now > entBefore.updatedAt
    /\ ent = entBefore

(***************************************************************************)
(* Claims about the application service.                                   *)
(***************************************************************************)
\* the saved audit entries of a payment
AuditsOf(id) == Matching(entries, EntityTypePayment, id)

Returned(c, op) == pc[c] = "done" /\ frame[c].op = op

\* C1: with an audit store whose Save never fails, every CreatePayment,
\* ProcessPayment or CompletePayment call of the application service that
\* returns nil adds exactly one audit entry of that payment and every call
\* that returns an error adds none: the number of audit entries of a payment
\* equals the number of successful calls made on it.
C1_OneAuditEntryPerSuccessfulCall ==
    auditRepo = "memory" =>
        \A id \in PaymentIDs : Cardinality(AuditsOf(id)) = Len(okCalls[id])

\* three successful calls on a payment, then a call on it that is rejected
C1_Witness ==
    /\ auditRepo = "memory"
    /\ \E c \in Callers :
        /\ Returned(c, "AppProcessPayment")
        /\ frame[c].err # NoErr
        /\ Len(okCalls[frame[c].id]) = 3
        /\ Cardinality(AuditsOf(frame[c].id)) = 3

\* no call of any caller is under way on the payment
Quiet(id) == \A c \in Callers : pc[c] \in {"idle", "done"} \/ frame[c].id # id

\* C2: every accepted status change of a stored payment, made through the
\* payment domain service or the application service, has a corresponding
\* audit entry of that payment.
C2_EveryStatusChangeAudited ==
    auditRepo = "memory" =>
        \A id \in payments :
            Quiet(id) /\ heap[id].status # PaymentStatusPending =>
                \E i \in AuditsOf(id) :
                    /\ ~entries[i].newData.isNil
                    /\ "status" \in DOMAIN entries[i].newData.m
                    /\ entries[i].newData.m["status"] =
                           Str(StatusString(heap[id].status))

\* the status a payment has after a successful call of the operation
StatusAfter(op) ==
    CASE op = "AppCreatePayment" -> PaymentStatusPending
      [] op = "AppProcessPayment" -> PaymentStatusProcessing
      [] op = "AppCompletePayment" -> PaymentStatusCompleted

\* the audit action a successful call of the operation records
ActionOf(op) ==
    CASE op = "AppCreatePayment" -> ActionTypeCreated
      [] op = "AppProcessPayment" -> ActionTypeProcessed
      [] op = "AppCompletePayment" -> ActionTypeCompleted

\* the audit store's Save failed in the call that c has just finished
AuditSaveFailed(c) ==
    /\ pc[c] = "done"
    /\ frame[c].op \in AppMutations
    /\ frame[c].auditErr = "audit store unavailable"

\* C8: when the audit store's Save fails after the payment mutation
\* succeeded, the application-service call returns an error and the mutation
\* stays: the payment is in the payment store with the status the call gave
\* it, and no audit entry of that call exists.
C8_AuditFailureKeepsMutation ==
    \A c \in Callers :
        AuditSaveFailed(c) =>
            /\ frame[c].err # NoErr
            /\ frame[c].id \in payments
            /\ heap[frame[c].id].status = StatusAfter(frame[c].op)
            /\ \A i \in AuditsOf(frame[c].id) :
                   entries[i].action # ActionOf(frame[c].op)

\* ProcessPayment whose audit record could not be saved
C8_Witness ==
    \E c \in Callers :
        /\ AuditSaveFailed(c)
        /\ frame[c].op = "AppProcessPayment"
        /\ heap[frame[c].id].status = PaymentStatusProcessing
        /\ Cardinality(AuditsOf(frame[c].id)) = 1

\* C9: right after a successful application-service CreatePayment,
\* GetPaymentAuditHistory on the new id returns exactly one entry: its
\* action is created, its userID is the caller's, its newData has
\* status = "pending" and its oldData is empty.
C9_HistoryAfterCreate ==
    \A c \in Callers :
        Returned(c, "AppCreatePayment") /\ frame[c].err = NoErr =>
            \A h \in GetPaymentAuditHistory(entries, frame[c].id) :
                /\ Len(h.items) = 1
                /\ LET e == entries[h.items[1]]
                   IN  /\ e.action = ActionTypeCreated
                       /\ e.userID = frame[c].userID
                       /\ ~e.newData.isNil
                       /\ "status" \in DOMAIN e.newData.m
                       /\ e.newData.m["status"] = Str("pending")
                       /\ DOMAIN e.oldData.m = {}

C9_Witness ==
    \E c \in Callers :
        /\ Returned(c, "AppCreatePayment")
        /\ frame[c].err = NoErr
        /\ frame[c].userID = "user-456"
        /\ Cardinality(AuditsOf(frame[c].id)) = 1

\* the status recorded under "status" in a payload
StatusIn(payload) ==
    IF ~payload.isNil /\ "status" \in DOMAIN payload.m
    THEN payload.m["status"].s ELSE "(none)"

CreateProcessComplete ==
    <<"AppCreatePayment", "AppProcessPayment", "AppCompletePayment">>

\* the three entries of a created, processed and completed payment
RightEntries(items) ==
    /\ Len(items) = 3
    /\ \E i, j, k \in 1..3 :
        /\ entries[items[i]].action = ActionTypeCreated
        /\ entries[items[j]].action = ActionTypeProcessed
        /\ StatusIn(entries[items[j]].oldData) = "pending"
        /\ StatusIn(entries[items[j]].newData) = "processing"
        /\ entries[items[k]].action = ActionTypeCompleted
        /\ StatusIn(entries[items[k]].oldData) = "processing"
        /\ StatusIn(entries[items[k]].newData) = "completed"

\* C10: for a single caller, CreatePayment, then ProcessPayment, then
\* CompletePayment on the same payment yield an audit history of exactly
\* three entries: created, then processed (pending to processing), then
\* completed (processing to completed).
C10_HistoryCreatedProcessedCompleted ==
    \A c \in Callers :
        /\ Returned(c, "AppGetPaymentAuditHistory")
        /\ okCalls[frame[c].id] = CreateProcessComplete
        => /\ RightEntries(frame[c].history.items)
           /\ entries[frame[c].history.items[1]].action = ActionTypeCreated
           /\ entries[frame[c].history.items[2]].action = ActionTypeProcessed
           /\ entries[frame[c].history.items[3]].action = ActionTypeCompleted

\* the returned history holds the three entries, in some order
HistoryHoldsTheThreeEntries ==
    \A c \in Callers :
        /\ Returned(c, "AppGetPaymentAuditHistory")
        /\ okCalls[frame[c].id] = CreateProcessComplete
        => RightEntries(frame[c].history.items)

\* C11: GetPaymentAuditHistory, served by the in-memory audit store, returns
\* the entries of a payment in the order in which they were recorded: of any
\* two returned entries the one saved earlier comes earlier.
C11_HistoryInCreationOrder ==
    \A c \in Callers :
        Returned(c, "AppGetPaymentAuditHistory") =>
            \A i, j \in 1..Len(frame[c].history.items) :
                i < j => frame[c].history.items[i] < frame[c].history.items[j]

\* C12: GetPaymentAuditHistory for a payment id without audit entries, also
\* one that is not in the payment store, returns no error and an empty
\* collection that is not null.
C12_EmptyHistoryIsNotNull ==
    \A c \in Callers :
        Returned(c, "AppGetPaymentAuditHistory") /\ AuditsOf(frame[c].id) = {}
            => /\ frame[c].err = NoErr
               /\ Len(frame[c].history.items) = 0
               /\ ~frame[c].history.isNil

\* the part of C12 the code keeps: no error and no entries
EmptyHistoryHasNoErrorAndNoEntries ==
    \A c \in Callers :
        Returned(c, "AppGetPaymentAuditHistory") /\ AuditsOf(frame[c].id) = {}
            => /\ frame[c].err = NoErr
               /\ Len(frame[c].history.items) = 0

(***************************************************************************)
(* Claims about the payment domain service (checked under SpecDomain).     *)
(***************************************************************************)
\* caller c is making the step in which its repository.Update call returns
\* nil, which ends its transition operation
UpdateReturnsNil(c) ==
    /\ pc[c] = "update"
    /\ frame[c].op \in DomainTransitions
    /\ pc'[c] = "done"
    /\ frame'[c].err = NoErr

\* caller d has finished a transition operation on the payment with nil
SucceededOn(d, id) ==
    /\ pc[d] = "done"
    /\ frame[d].op \in DomainTransitions
    /\ frame[d].id = id
    /\ frame[d].err = NoErr

\* C13: when two concurrent transition calls of the payment domain service
\* on the same payment both pass their guard and both return nil, the status
\* stored once both have finished is the one written by the call whose
\* Update executed second.
C13_SecondUpdateWins ==
    [][\A c, d \in Callers :
        c # d /\ UpdateReturnsNil(c) /\ SucceededOn(d, frame[c].id)
            => heap'[frame[c].id].status = StatusWritten(Method(frame[c].op))
      ]_vars

\* two transition calls on one payment have both returned nil although the
\* status the first wrote does not admit the second (they ran concurrently)
BothPassedGuardAndSucceeded ==
    /\ SucceededOn("c1", NewPaymentID(1))
    /\ SucceededOn("c2", NewPaymentID(1))
    /\ frame["c1"].op = "ProcessPayment"
    /\ frame["c2"].op = "CancelPayment"
    /\ calls = 3

\* the error each transition returns when its guard rejects
GuardMessage(op) ==
    CASE op = "ProcessPayment" ->
             "payment can only be processed from pending status"
      [] op = "CompletePayment" ->
             "payment can only be completed from processing status"
      [] op = "FailPayment" -> "completed payment cannot be failed"
      [] op = "CancelPayment" ->
             "payment cannot be cancelled in current status"

\* caller c makes a step of a transition operation of the domain service
\* that ends the operation
TransitionEnds(c) ==
    /\ pc[c] \in {"idle", "guard", "update"}
    /\ pc'[c] = "done"
    /\ frame'[c].op \in DomainTransitions

\* C19: each of ProcessPayment, CompletePayment, FailPayment and
\* CancelPayment of the payment domain service returns "payment not found"
\* and leaves the store unchanged when the id is absent at fetch time,
\* returns the transition's own guard error when the guard rejects, and,
\* when the payment was deleted between the fetch and the update, returns
\* "payment not found" and leaves the payment absent.
C19_NotFoundAndGuardErrors ==
    [][\A c \in Callers :
        TransitionEnds(c) =>
            /\ pc[c] = "idle" =>
                   /\ frame'[c].id \notin payments
                   /\ frame'[c].err = "payment not found"
                   /\ UNCHANGED <<payments, heap>>
            /\ pc[c] = "guard" =>
                   /\ frame'[c].err = GuardMessage(frame[c].op)
                   /\ <<frame[c].op, heap[frame[c].id].status>> \in
                          {<<o, st>> \in DomainTransitions \X PaymentStatuses :
                              <<Method(o), st>> \in RejectedPairs}
                   /\ UNCHANGED <<payments, heap>>
            /\ pc[c] = "update" /\ frame[c].id \notin payments =>
                   /\ frame'[c].err = "payment not found"
                   /\ frame'[c].id \notin payments'
            /\ pc[c] = "update" /\ frame[c].id \in payments =>
                   /\ frame'[c].err = NoErr
                   /\ payments' = payments
      ]_vars

\* CancelPayment of a pending payment that was deleted after the fetch: the
\* only transition of the run has written the status, the payment is absent
C19_Witness ==
    \E c \in Callers :
        /\ Returned(c, "CancelPayment")
        /\ frame[c].err = "payment not found"
        /\ frame[c].id \notin payments
        /\ frame[c].id \in DOMAIN heap
        /\ heap[frame[c].id].status = PaymentStatusCancelled
        /\ calls = 3

(***************************************************************************)
(* Claims about the stores (checked under SpecSave and SpecStore).         *)
(***************************************************************************)
\* a call of the method is under way, its lock not yet released
InProgress(op) ==
    \E c \in Callers : pc[c] \in {"lock", "body", "unlock"} /\ frame[c].op = op

\* caller c makes the step that runs the body of the method
BodyRuns(c, op) == pc[c] = "body" /\ frame[c].op = op /\ pc'[c] = "unlock"

\* caller c makes the step in which the method returns
MethodReturns(c, op) == pc[c] = "unlock" /\ frame[c].op = op /\ pc'[c] = "done"

\* once every Save has returned, the store holds the payments made so far
AllSavedAreStored == ~InProgress("Save") => payments = DOMAIN heap

\* no two saved audit entries have the same id
AuditIDsDistinct ==
    \A i, j \in 1..Len(entries) : entries[i].id = entries[j].id => i = j

\* what the Save and Find calls return, and what a step keeps
SaveAndFindResults ==
    \A c \in Callers :
        /\ MethodReturns(c, "Save") =>
               /\ frame'[c].err = NoErr
               /\ frame[c].id \in payments
        /\ BodyRuns(c, "FindAll") /\ ~InProgress("Save") =>
               /\ Len(frame'[c].all) = Cardinality(DOMAIN heap)
               /\ {frame'[c].all[i] : i \in 1..Len(frame'[c].all)} = DOMAIN heap
        /\ BodyRuns(c, "FindByID") /\ ~InProgress("Save")
               /\ frame[c].id \in DOMAIN heap =>
               frame'[c].err = NoErr
        /\ MethodReturns(c, "AuditSave") =>
               /\ frame'[c].err = NoErr
               /\ \E i \in 1..Len(entries) : entries[i] = frame[c].entry
        /\ payments \subseteq payments'
        /\ \A i \in 1..Len(entries) :
               \E j \in 1..Len(entries') : entries'[j] = entries[i]

\* C14: under any interleaving of concurrent Save calls on the in-memory
\* payment store for payments with pairwise distinct ids, every Save returns
\* nil and, once all have returned, FindAll returns exactly those payments
\* and FindByID succeeds for each id; likewise every concurrent Save of a
\* distinct audit entry returns nil and its entry is and stays stored.
C14_ConcurrentSavesAllStored ==
    /\ [](AllSavedAreStored /\ AuditIDsDistinct)
    /\ [][SaveAndFindResults]_vars

\* a Save is inside the store while the Save of another payment waits for
\* the lock, and two audit entries have been saved
C14_Witness ==
    /\ pc["c1"] = "unlock" /\ frame["c1"].op = "Save"
    /\ pc["c2"] = "lock" /\ frame["c2"].op = "Save"
    /\ frame["c1"].id # frame["c2"].id
    /\ frame["c1"].id \in payments
    /\ Len(entries) = 2

Calls(c, ops) == pc[c] = "idle" /\ pc'[c] # "idle" /\ frame'[c].op \in ops

\* C15: application-service ProcessPayment and CompletePayment called with
\* a payment id that is not in the payment store return an error and change
\* nothing: no payment is created or modified, no audit entry is recorded.
C15_UnknownIdChangesNothing ==
    [][\A c \in Callers :
        Calls(c, AppTransitions) /\ frame'[c].id \notin payments =>
            /\ pc'[c] = "done"
            /\ frame'[c].err # NoErr
            /\ UNCHANGED <<payments, heap, entries>>
      ]_vars

\* CompletePayment on an unknown id while a payment and its audit entry exist
C15_Witness ==
    \E c \in Callers :
        /\ Returned(c, "AppCompletePayment")
        /\ frame[c].id = "non-existent-payment"
        /\ frame[c].err = "failed to get payment: payment not found"
        /\ payments # {}
        /\ Len(entries) = 1

\* C16: application-service CreatePayment with a negative amount or an
\* empty currency returns an error without touching any store: the payment
\* store and the audit store hold the same entries after the call as before.
C16_InvalidAmountTouchesNoStore ==
    [][\A c \in Callers :
        /\ Calls(c, {"AppCreatePayment"})
        /\ FloatLt(frame'[c].amount, Float(0)) \/ frame'[c].currency = ""
        => /\ pc'[c] = "done"
           /\ frame'[c].err # NoErr
           /\ UNCHANGED <<payments, heap, entries>>
      ]_vars

\* CreatePayment(100, "") rejected while a payment and its entry are stored
C16_Witness ==
    \E c \in Callers :
        /\ Returned(c, "AppCreatePayment")
        /\ frame[c].amount = Float(100)
        /\ frame[c].currency = ""
        /\ frame[c].err = "invalid amount: currency cannot be empty"
        /\ payments # {}
        /\ Len(entries) = 1

(***************************************************************************)
(* Claims about the audit domain service (checked under SpecAudit).        *)
(***************************************************************************)
\* the one-key snapshot {status: value} as an entry holds it
StatusSnapshot(value) == Payload([k \in {"status"} |-> Str(value)])

\* C17: RecordPaymentStatusChange called with a newStatus that is not one
\* of "processing", "completed", "failed", "cancelled" returns the error
\* "unknown payment status" and leaves the audit store unchanged.
C17_UnknownStatusRejected ==
    [][\A c \in Callers :
        /\ Calls(c, {"RecordPaymentStatusChange"})
        /\ frame'[c].newStatus \notin
               {"processing", "completed", "failed", "cancelled"}
        => /\ frame'[c].err = "unknown payment status"
           /\ entries' = entries
      ]_vars

\* newStatus "pending" rejected while the store holds an entry
C17_Witness ==
    \E c \in Callers :
        /\ Returned(c, "RecordPaymentStatusChange")
        /\ frame[c].newStatus = "pending"
        /\ frame[c].err = "unknown payment status"
        /\ Len(entries) = 1

\* C18: a successful RecordPaymentStatusChange persists exactly one audit
\* entry, whose action is processed for "processing", completed for
\* "completed", failed for "failed" and cancelled for "cancelled", and whose
\* oldData and newData are the one-key snapshots {status: oldStatus} and
\* {status: newStatus}.
C18_StatusChangeEntry ==
    [][\A c \in Callers :
        Calls(c, {"RecordPaymentStatusChange"}) /\ frame'[c].err = NoErr =>
            /\ Len(entries') = Len(entries) + 1
            /\ SubSeq(entries', 1, Len(entries)) = entries
            /\ LET e == entries'[Len(entries')]
                   new == frame'[c].newStatus
               IN  /\ new = "processing" => e.action = "processed"
                   /\ new = "completed" => e.action = "completed"
                   /\ new = "failed" => e.action = "failed"
                   /\ new = "cancelled" => e.action = "cancelled"
                   /\ new \in {"processing", "completed", "failed", "cancelled"}
                   /\ e.oldData = StatusSnapshot(frame'[c].oldStatus)
                   /\ e.newData = StatusSnapshot(new)
                   /\ e.entityType = EntityTypePayment
                   /\ e.entityID = frame'[c].id
      ]_vars

\* a recorded change from processing to failed
C18_Witness ==
    \E c \in Callers :
        /\ Returned(c, "RecordPaymentStatusChange")
        /\ frame[c].err = NoErr
        /\ frame[c].oldStatus = "processing"
        /\ frame[c].newStatus = "failed"
        /\ Len(entries) = 2
        /\ entries[2].action = ActionTypeFailed
        /\ StatusIn(entries[2].oldData) = "processing"
        /\ StatusIn(entries[2].newData) = "failed"

Satisfies(e, f) ==
    /\ ~f.EntityType.isNil => e.entityType = f.EntityType.v
    /\ ~f.EntityID.isNil => e.entityID = f.EntityID.v
    /\ ~f.Action.isNil => e.action = f.Action.v
    /\ ~f.UserID.isNil => e.userID = f.UserID.v
    /\ ~f.FromDate.isNil => e.timestamp >= f.FromDate.v
    /\ ~f.ToDate.isNil => e.timestamp <= f.ToDate.v

\* the sequence lists exactly the members of S, each once
ListsOnce(items, S) ==
    /\ Len(items) = Cardinality(S)
    /\ {items[i] : i \in 1..Len(items)} = S

\* C22: FindByFilter on the in-memory audit store returns exactly the saved
\* entries that satisfy every predicate present in the filter (entity type,
\* entity id, action and user id equal to the given value, timestamp not
\* before FromDate and not after ToDate, both inclusive); the empty filter
\* returns every saved entry.
C22_FindByFilterExact ==
    \A c \in Callers :
        Returned(c, "FindByFilter") =>
            /\ frame[c].err = NoErr
            /\ ListsOnce(frame[c].history.items,
                         {i \in 1..Len(entries) :
                             Satisfies(entries[i], frame[c].filter)})
            /\ frame[c].filter = EmptyFilter =>
                   Len(frame[c].history.items) = Len(entries)

\* a filter with an entity id and both dates picked one of two saved entries:
\* the one made at ToDate
C22_Witness ==
    \E c \in Callers :
        /\ Returned(c, "FindByFilter")
        /\ Len(entries) = 2
        /\ ~frame[c].filter.EntityID.isNil
        /\ ~frame[c].filter.ToDate.isNil
        /\ frame[c].filter.FromDate.isNil
        /\ Len(frame[c].history.items) = 1
        /\ entries[frame[c].history.items[1]].timestamp = frame[c].filter.ToDate.v
        /\ \E i \in 1..2 : entries[i].timestamp > frame[c].filter.ToDate.v

\* C23: FindByEntityID(entityType, entityID) on the in-memory audit store
\* returns exactly the saved entries whose entity type and entity id both
\* equal the arguments, each once, and no entry of another entity.
C23_FindByEntityIDExact ==
    \A c \in Callers :
        Returned(c, "FindByEntityID") =>
            /\ frame[c].err = NoErr
            /\ ListsOnce(frame[c].history.items,
                         {i \in 1..Len(entries) :
                             /\ entries[i].entityType = frame[c].entityType
                             /\ entries[i].entityID = frame[c].id})

\* of two saved entries with the same entity id and different entity types
\* FindByEntityID returned the one of the asked type
C23_Witness ==
    \E c \in Callers :
        /\ Returned(c, "FindByEntityID")
        /\ Len(entries) = 2
        /\ entries[1].entityID = entries[2].entityID
        /\ entries[1].entityType # entries[2].entityType
        /\ Len(frame[c].history.items) = 1
        /\ entries[frame[c].history.items[1]].entityType = frame[c].entityType
        /\ entries[frame[c].history.items[1]].entityID = frame[c].id

(***************************************************************************)
(* Claims about the AuditEntry entity (under SpecEntry).                   *)
(***************************************************************************)
\* the argument is a struct or a string-keyed map
RecordShaped(data) == data.kind \in {"map", "struct"}

\* the JSON form of a record, read back as a map: a time is its text
Serialized(m) ==
    [k \in DOMAIN m |->
        IF m[k].kind = "time" THEN Str(FormatTime(m[k].f.n)) ELSE m[k]]

\* caller c makes a call of the setter on the entry it holds
SetterCall(c, op) ==
    /\ pc[c] = "done"
    /\ frame[c].op \in {"NewAuditEntry", "SetOldData", "SetNewData"}
    /\ pc'[c] = "done"
    /\ frame'[c].op = op

\* C24 as stated: SetOldData and SetNewData succeed only for a record-shaped
\* value.
C24_SucceedOnlyForRecords ==
    \A c \in Callers :
        /\ pc[c] = "done"
        /\ frame[c].op \in {"SetOldData", "SetNewData"}
        /\ frame[c].err = NoErr
        => RecordShaped(frame[c].data)

\* C24, amended: SetOldData and SetNewData succeed only for a record-shaped
\* value or a null value; for a record-shaped value they then replace the
\* payload with its serialized form; for a bare scalar, a sequence or a
\* non-serializable value (channel, function) they return an error and leave
\* the entry's existing payloads unchanged.
C24_SetDataRecordOrNull ==
    [][\A c \in Callers :
        /\ SetterCall(c, "SetOldData") \/ SetterCall(c, "SetNewData") =>
            /\ frame'[c].err = NoErr =>
                   RecordShaped(frame'[c].data) \/ frame'[c].data = NilData
            /\ frame'[c].data \in
                   {OtherData(k) : k \in {"scalar", "slice", "chan", "func"}}
                   => /\ frame'[c].err # NoErr
                      /\ frame'[c].entry = frame[c].entry
            /\ frame'[c].err # NoErr => frame'[c].entry = frame[c].entry
        /\ SetterCall(c, "SetOldData") /\ frame'[c].err = NoErr
              /\ RecordShaped(frame'[c].data) =>
            /\ frame'[c].entry.oldData = Payload(Serialized(frame'[c].data.m))
            /\ frame'[c].entry.newData = frame[c].entry.newData
        /\ SetterCall(c, "SetNewData") /\ frame'[c].err = NoErr
              /\ RecordShaped(frame'[c].data) =>
            /\ frame'[c].entry.newData = Payload(Serialized(frame'[c].data.m))
            /\ frame'[c].entry.oldData = frame[c].entry.oldData
      ]_vars

\* SetOldData of a bare scalar failed on an entry whose oldData holds the
\* serialized form of a struct set before, the time written as text
C24_Witness ==
    \E c \in Callers :
        /\ pc[c] = "done"
        /\ frame[c].op = "SetOldData"
        /\ frame[c].data = OtherData("scalar")
        /\ frame[c].err # NoErr
        /\ ~frame[c].entry.oldData.isNil
        /\ DOMAIN frame[c].entry.oldData.m = {"id", "at"}
        /\ frame[c].entry.oldData.m["at"] = Str(FormatTime(0))

\* SetNewData of a null value returned no error
C24_NullSucceeds ==
    \E c \in Callers :
        /\ pc[c] = "done"
        /\ frame[c].op = "SetNewData"
        /\ frame[c].data = NilData
        /\ frame[c].err = NoErr

\* C25: NewAuditEntry returns an entry with a non-empty id, the given entity
\* type, entity id, action and user id, and with oldData, newData and
\* metadata each a non-null empty container.
C25_NewAuditEntryFields ==
    \A c \in Callers :
        Returned(c, "NewAuditEntry") =>
            LET e == frame[c].entry
            IN  /\ e.id # ""
                /\ e.entityType = frame[c].entityType
                /\ e.entityID = frame[c].id
                /\ e.action = frame[c].action
                /\ e.userID = frame[c].userID
                /\ \A d \in {e.oldData, e.newData, e.metadata} :
                       ~d.isNil /\ DOMAIN d.m = {}

\* the second entry made: an order's, processed, by the second user
C25_Witness ==
    \E c \in Callers :
        /\ Returned(c, "NewAuditEntry")
        /\ frame[c].entry.id = NewAuditID(2)
        /\ frame[c].entry.entityType = "order"
        /\ frame[c].entry.action = ActionTypeProcessed
        /\ frame[c].entry.userID = "user-456"
        /\ ~frame[c].entry.oldData.isNil

(***************************************************************************)
(* Claims about the core (under SpecCore).                                 *)
(***************************************************************************)
\* the payment that the call of c has created
Created(c) == heap[frame[c].id]

\* c holds a payment returned by NewPayment and the domain CreatePayment,
\* or by the application CreatePayment
HoldsNewPayment(c) ==
    \/ Returned(c, "CreatePayment") /\ frame[c].err = NoErr
    \/ pc[c] = "record_created"
    \/ Returned(c, "AppCreatePayment") /\ frame[c].err = NoErr

\* C26: every payment returned by NewPayment and by the domain and the
\* application CreatePayment has status pending, createdAt equal to
\* updatedAt, and the amount and description that were supplied; the domain
\* CreatePayment has also stored it, so that GetPayment on its id succeeds
\* immediately afterwards.
C26_CreatedPaymentIsPending ==
    /\ \A c \in Callers :
        HoldsNewPayment(c) =>
            /\ Created(c).id = frame[c].id
            /\ Created(c).status = PaymentStatusPending
            /\ StatusString(Created(c).status) = "pending"
            /\ Created(c).createdAt = Created(c).updatedAt
            /\ Created(c).amount.value = frame[c].amount
            /\ Created(c).amount.currency = frame[c].currency
            /\ Created(c).description = frame[c].description
            /\ frame[c].id \in payments
            /\ FindByID(payments, frame[c].id) = NoErr
    /\ \A c \in Callers :
        Returned(c, "GetPayment") /\ frame[c].id \in DOMAIN heap =>
            frame[c].err = NoErr

\* the domain CreatePayment has returned a payment made after the clock
\* has advanced
C26_Witness ==
    \E c \in Callers :
        /\ Returned(c, "CreatePayment")
        /\ frame[c].err = NoErr
        /\ Created(c).createdAt = 1
        /\ Created(c).updatedAt = 1
        /\ Created(c).description = "Online purchase"
        /\ Created(c).amount.value = Float(100)

(***************************************************************************)
(* Claims about the entity's timestamps (under SpecEntity).                *)
(***************************************************************************)
\* C27: over any sequence of transition calls on a payment, with a clock
\* that never goes backwards, updatedAt never decreases and is set to the
\* current time by every accepted transition (the Fail-on-failed and
\* Cancel-on-cancelled self-loops included), createdAt never changes, and
\* createdAt <= updatedAt holds in every state.
C27_UpdatedAtMonotone ==
    /\ [](ent.createdAt <= ent.updatedAt)
    /\ [][/\ now' >= now
          /\ ent'.updatedAt >= ent.updatedAt
          /\ ent'.createdAt = ent.createdAt
          /\ now' = now /\ entCall'.err = NoErr => ent'.updatedAt = now
          /\ now' = now /\ entCall'.err # NoErr =>
                 ent'.updatedAt = ent.updatedAt
         ]_vars

\* an accepted Fail on a payment that had failed at an earlier time has
\* moved updatedAt to the current time
C27_Witness ==
    /\ entCall.op = "Fail"
    /\ entCall.err = NoErr
    /\ entBefore.status = PaymentStatusFailed
    /\ ent.status = PaymentStatusFailed
    /\ entBefore.updatedAt < now
    /\ ent.updatedAt = now
    /\ ent.createdAt < ent.updatedAt

(***************************************************************************)
(* Claims about NewAmount, applied by the application CreatePayment        *)
(* (under SpecApp).                                                        *)
(***************************************************************************)
\* the float64 comparison value >= 0 (false for NaN)
GeZero(value) == ~value.nan /\ value.n >= 0

\* what the claim says of the NewAmount call made by a CreatePayment call
\* of c with the amount value and currency: the call goes on past NewAmount
\* exactly when it succeeded, and the payment then made holds its result
NewAmountAsClaimed(c, value, currency) ==
    LET ok == pc'[c] = "record_created"
    IN  /\ ok <=> GeZero(value) /\ currency # ""
        /\ ok => /\ heap'[frame'[c].id].amount.value = value
                 /\ heap'[frame'[c].id].amount.currency = currency
        /\ FloatLt(value, Float(0)) =>
               frame'[c].err = "invalid amount: amount cannot be negative"
        /\ GeZero(value) /\ currency = "" =>
               frame'[c].err = "invalid amount: currency cannot be empty"

\* C28: NewAmount(value, currency) succeeds exactly when value >= 0 and the
\* currency is non-empty, and then Value() and Currency() return the inputs
\* unchanged; it fails with "amount cannot be negative" when value < 0 (also
\* when the currency is empty as well) and with "currency cannot be empty"
\* when value >= 0 and the currency is empty.
C28_NewAmountValidation ==
    [][\A c \in Callers :
        Calls(c, {"AppCreatePayment"}) =>
            NewAmountAsClaimed(c, frame'[c].amount, frame'[c].currency)
      ]_vars

\* the same for every value that is a number
NewAmountValidationOfNumbers ==
    [][\A c \in Callers :
        Calls(c, {"AppCreatePayment"}) /\ ~frame'[c].amount.nan =>
            NewAmountAsClaimed(c, frame'[c].amount, frame'[c].currency)
      ]_vars

(***************************************************************************)
(* Claims about what the core leaves in the stores (under SpecCore).       *)
(***************************************************************************)
\* C29: the core never deletes a payment: under any sequence of operations
\* of the payment domain service and of the application service (create,
\* get, process, complete, fail, cancel, audit queries) the set of payment
\* ids in the payment store never shrinks.
C29_CoreNeverDeletes ==
    [][/\ payments \subseteq payments'
       /\ \A id \in payments : FindByID(payments', id) = NoErr
      ]_vars

\* a payment created and processed through the application service and then
\* cancelled through the domain service is still stored
C29_Witness ==
    \E c \in Callers :
        /\ Returned(c, "CancelPayment")
        /\ frame[c].err = NoErr
        /\ frame[c].id \in payments
        /\ heap[frame[c].id].status = PaymentStatusCancelled
        /\ Len(entries) = 2

(***************************************************************************)
(* Claims about the audit trail (under SpecCore).                          *)
(***************************************************************************)
\* the saved audit entries
Saved(es) == {es[i] : i \in 1..Len(es)}

\* C30: the audit trail is append-only: no operation of the audit store, the
\* audit domain service or the application service removes a saved audit
\* entry or changes its id, entity type, entity id, action, user id or
\* timestamp; the set of saved audit ids only grows.
C30_AuditTrailAppendOnly ==
    [][/\ \A e \in Saved(entries) :
            \E f \in Saved(entries') :
                /\ f.id = e.id
                /\ f.entityType = e.entityType
                /\ f.entityID = e.entityID
                /\ f.action = e.action
                /\ f.userID = e.userID
                /\ f.timestamp = e.timestamp
       /\ {e.id : e \in Saved(entries)} \subseteq {f.id : f \in Saved(entries')}
       /\ Cardinality({f.id : f \in Saved(entries')}) = Len(entries')
      ]_vars

\* the entry of a payment's creation, made at an earlier time, is still
\* saved after the processing and the completion of that payment were
\* recorded and the payment's history was read
C30_Witness ==
    \E c \in Callers :
        /\ Returned(c, "AppGetPaymentAuditHistory")
        /\ Len(frame[c].history.items) = 3
        /\ Len(entries) = 3
        /\ entries[1].action = ActionTypeCreated
        /\ entries[1].timestamp < now
        /\ entries[2].action = ActionTypeProcessed
        /\ entries[2].oldData = StatusSnapshot("pending")
        /\ entries[3].action = ActionTypeCompleted
        /\ \A i \in 2..3 : entries[i].entityID = entries[1].entityID

(***************************************************************************)
(* Claims C31..C40.                                                        *)
(***************************************************************************)
\* the step is a Save, Update or Delete of the payment store on the id
PaymentStoreWriteOn(id) ==
    \E c \in Callers :
        \/ Calls(c, {"CreatePayment", "Delete"}) /\ frame'[c].id = id
        \/ pc[c] = "update" /\ frame[c].id = id /\ pc'[c] # "update"

\* C31: the stores exclusively own saved instances: the content the payment
\* store returns for a saved payment changes only through that store's
\* Save, Update or Delete call, so a transition applied to a payment
\* obtained from CreatePayment or FindByID is not visible through the
\* store's find operations until Update is called.
C31_StoresOwnSavedInstances ==
    [][\A id \in payments \cap payments' :
          heap'[id] # heap[id] => PaymentStoreWriteOn(id)
      ]_vars

\* a transition has written the new status and the caller has not yet
\* called Update: FindByID of the id already returns the payment with it
TransitionVisibleBeforeUpdate ==
    \E c \in Callers :
        /\ pc[c] = "set_updated_at"
        /\ frame[c].op = "ProcessPayment"
        /\ FindByID(payments, frame[c].id) = NoErr
        /\ heap[frame[c].id].status = PaymentStatusProcessing

\* the mutex of the store that c's method belongs to, and of the other one
OwnStore(c) == StoreOf(frame[c].op)
OtherStore(c) == CHOOSE s \in Stores : s # OwnStore(c)

\* c, waiting for the lock of its store, gets it now
GetsLock(c) ==
    IF frame[c].op \in StoreWrites THEN CanLock(mu[OwnStore(c)])
    ELSE CanRLock(mu[OwnStore(c)])

\* C32: in each in-memory store, while a Save, Update or Delete call is
\* inside its critical section no other call on the same store, read or
\* write, is inside its own; find calls overlap only with other find calls;
\* and the payment store's lock and the audit store's lock are independent:
\* whether a call gets its lock depends only on the calls that are inside
\* the same store, and a call inside one store holds nothing of the other's
\* lock.
C32_WritersExcludeAll ==
    /\ \A s \in Stores : \A c, d \in Callers :
            /\ c # d
            /\ InSection(c, s)
            /\ InSection(d, s)
            => frame[c].op \notin StoreWrites /\ frame[d].op \notin StoreWrites
    /\ \A c \in Callers :
            pc[c] = "lock" =>
                (GetsLock(c) <=>
                    \A d \in Callers \ {c} :
                        InSection(d, OwnStore(c)) =>
                            /\ frame[c].op \notin StoreWrites
                            /\ frame[d].op \notin StoreWrites)
    /\ \A c \in Callers :
            InSection(c, OwnStore(c)) =>
                /\ mu[OtherStore(c)].writer # c
                /\ c \notin mu[OtherStore(c)].readers

\* a Delete is inside the payment store while a Save is inside the audit
\* store
C32_Witness ==
    /\ InSection("c1", "payment") /\ frame["c1"].op = "Delete"
    /\ InSection("c2", "audit") /\ frame["c2"].op = "AuditSave"
    /\ pc["c1"] = "body" /\ pc["c2"] = "body"

\* two FindByID calls are inside the payment store at once
FindCallsOverlap ==
    /\ pc["c1"] = "body" /\ frame["c1"].op = "FindByID"
    /\ pc["c2"] = "body" /\ frame["c2"].op = "FindByID"

(***************************************************************************)
(* Claims about concurrent callers of the application service (under       *)
(* SpecAppPair).                                                           *)
(***************************************************************************)
\* C33: under any interleaving of concurrent application-service
\* ProcessPayment and CompletePayment calls on the same payment, every
\* status-change audit entry records in oldData.status the status the
\* payment held immediately before the transition that the entry records,
\* so every recorded (old, new) pair is (pending, processing) or
\* (processing, completed).
C33_RecordedOldStatusIsPrior ==
    \A i \in 1..Len(entries) :
        entries[i].action \in {ActionTypeProcessed, ActionTypeCompleted} =>
            <<StatusIn(entries[i].oldData), StatusIn(entries[i].newData)>>
                \in {<<"pending", "processing">>, <<"processing", "completed">>}

\* no call of the application service on the payment is in progress
NoCallInProgressOn(id) ==
    \A c \in Callers : pc[c] \in {"idle", "done"} \/ frame[c].id # id

\* the most recently recorded audit entry of the payment
LastAuditOf(id) ==
    entries[CHOOSE i \in AuditsOf(id) : \A j \in AuditsOf(id) : j <= i]

\* C34: when all mutations of a payment go through the application service
\* and the audit store never fails, then in every state where no
\* application-service call on that payment is in progress, the
\* newData.status of the most recently recorded audit entry of the payment
\* equals the payment's stored status; for concurrent callers as well as for
\* a single caller.
C34_LastAuditMatchesStatus ==
    \A id \in payments :
        auditRepo = "memory" /\ NoCallInProgressOn(id) /\ AuditsOf(id) # {} =>
            StatusIn(LastAuditOf(id).newData) = StatusString(heap[id].status)

\* the audit entries of the payment that record the action
EntriesOf(id, action) == {i \in AuditsOf(id) : entries[i].action = action}

\* C35: under any interleaving of concurrent application-service calls the
\* audit history of a payment contains at most one processed entry and at
\* most one completed entry, because at most one ProcessPayment call and at
\* most one CompletePayment call on a given payment can ever return success.
C35_AtMostOneProcessedAndCompleted ==
    \A id \in PaymentIDs :
        /\ Cardinality(EntriesOf(id, ActionTypeProcessed)) <= 1
        /\ Cardinality(EntriesOf(id, ActionTypeCompleted)) <= 1
        /\ Len(SelectSeq(okCalls[id], LAMBDA op : op = "AppProcessPayment")) <= 1
        /\ Len(SelectSeq(okCalls[id], LAMBDA op : op = "AppCompletePayment")) <= 1

\* C36: completed is absorbing: every Process, Complete, Fail or Cancel call
\* made on a completed payment returns an error and leaves the payment, and
\* so its status completed, as it was; no step of any kind takes the status
\* away from completed.
C36_CompletedIsAbsorbing ==
    [][ent.status = PaymentStatusCompleted =>
            /\ ent'.status = PaymentStatusCompleted
            /\ now' = now => /\ entCall'.op \in TransitionOps
                             /\ entCall'.err # NoErr
                             /\ ent' = ent]_vars

\* a call rejected on a payment that an earlier rejected call had already
\* found completed
C36_Witness ==
    /\ ent.status = PaymentStatusCompleted
    /\ entBefore.status = PaymentStatusCompleted
    /\ entCall.op = "Fail"
    /\ ~EntOk

\* C37: no call changes a status to pending; a failed or cancelled payment
\* stays in {failed, cancelled} under every call; processing is entered only
\* from pending by an accepted Process and completed only from processing by
\* an accepted Complete, so that a completed payment has been through an
\* accepted Process and then an accepted Complete.
C37_TerminalStatusesAndPathToCompleted ==
    [][/\ ent'.status = PaymentStatusPending =>
                ent.status = PaymentStatusPending
       /\ ent.status \in {PaymentStatusFailed, PaymentStatusCancelled} =>
                ent'.status \in {PaymentStatusFailed, PaymentStatusCancelled}
       /\ (ent'.status = PaymentStatusProcessing
              /\ ent.status # PaymentStatusProcessing) =>
                /\ ent.status = PaymentStatusPending
                /\ entCall' = [op |-> "Process", err |-> NoErr]
       /\ (ent'.status = PaymentStatusCompleted
              /\ ent.status # PaymentStatusCompleted) =>
                /\ ent.status = PaymentStatusProcessing
                /\ entCall' = [op |-> "Complete", err |-> NoErr]]_vars

\* a failed payment that an accepted Cancel has made cancelled
C37_Witness ==
    /\ entCall.op = "Cancel"
    /\ EntOk
    /\ entBefore.status = PaymentStatusFailed
    /\ ent.status = PaymentStatusCancelled

(***************************************************************************)
(* Claims about RecordAction (under SpecRecord).                           *)
(***************************************************************************)
\* populating a payload with this argument fails: the value cannot be
\* serialized, or its serialized form is not a record
PopulationFails(data) ==
    \/ data.kind \in {"scalar", "slice", "chan", "func"}
    \/ \E k \in DOMAIN data.m : data.m[k].kind = "number" /\ data.m[k].f.nan

\* the payload an entry holds after RecordAction was given this argument
PayloadFor(data) ==
    IF data = NilData THEN Payload(EmptyMap) ELSE Payload(Serialized(data.m))

\* caller c makes a call of RecordAction
RecordActionCall(c) ==
    /\ pc[c] = "idle"
    /\ pc'[c] = "done"
    /\ frame'[c].op = "RecordAction"

\* C38: RecordAction saves an audit entry only after both payloads were
\* populated successfully: when populating oldData fails, or oldData
\* succeeds and populating newData fails, it returns that error and the audit
\* store is unchanged; a null oldData or newData is skipped and leaves the
\* corresponding payload of the saved entry the empty container.
C38_RecordActionSavesOnlyPopulated ==
    [][\A c \in Callers : RecordActionCall(c) =>
        LET old == frame'[c].data.oldData
            new == frame'[c].data.newData
        IN  /\ PopulationFails(old) =>
                /\ frame'[c].err = SetOldData(NoEntry, old).err
                /\ frame'[c].err # NoErr
                /\ entries' = entries
            /\ ~PopulationFails(old) /\ PopulationFails(new) =>
                /\ frame'[c].err = SetNewData(NoEntry, new).err
                /\ frame'[c].err # NoErr
                /\ entries' = entries
            /\ entries' # entries =>
                /\ ~PopulationFails(old) /\ ~PopulationFails(new)
                /\ frame'[c].err = NoErr
                /\ Len(entries') = Len(entries) + 1
                /\ SubSeq(entries', 1, Len(entries)) = entries
                /\ entries'[Len(entries')].oldData = PayloadFor(old)
                /\ entries'[Len(entries')].newData = PayloadFor(new)
            /\ ~PopulationFails(old) /\ ~PopulationFails(new) =>
                /\ frame'[c].err = NoErr
                /\ entries' # entries
      ]_vars

\* oldData was populated from a map and newData, a channel, then failed,
\* after an earlier call with a null oldData had saved its entry
C38_Witness ==
    \E c \in Callers :
        /\ Returned(c, "RecordAction")
        /\ frame[c].data.oldData = MapData([k \in {"status"} |-> Str("pending")])
        /\ frame[c].data.newData = OtherData("chan")
        /\ frame[c].err # NoErr
        /\ Len(entries) = 1
        /\ entries[1].oldData = Payload(EmptyMap)
        /\ entries[1].newData # Payload(EmptyMap)

(***************************************************************************)
(* Claims about the payloads of an AuditEntry (under SpecEntry).           *)
(***************************************************************************)
\* C39: after any sequence of SetOldData and SetNewData calls on an audit
\* entry, successful or failed and with any argument including nil, the
\* entry's oldData and newData are non-nil maps.
C39_PayloadsStayNonNull ==
    \A c \in Callers :
        /\ pc[c] = "done"
        /\ frame[c].op \in {"NewAuditEntry", "SetOldData", "SetNewData"}
        => /\ ~frame[c].entry.oldData.isNil
           /\ ~frame[c].entry.newData.isNil

(***************************************************************************)
(* Claims about termination (under SpecFair).                              *)
(***************************************************************************)
\* the stores whose mutex caller c holds
LocksHeld(c) == {s \in Stores : mu[s].writer = c \/ c \in mu[s].readers}

\* c has begun a call that has not returned yet
InCall(c) == pc[c] \notin {"idle", "done"} \/ frame[c].service # ""

\* C40: with a fair lock, every call of a store method and of the
\* application's ProcessPayment returns, whatever the interleaving of the
\* callers: a caller holds no lock while it waits for one and when its call
\* has returned (on the error paths too), and inside a store method it holds
\* the lock of that store only.
C40_CallsTerminate ==
    /\ [](\A c \in Callers :
            /\ pc[c] \in {"idle", "done", "lock"} => LocksHeld(c) = {}
            /\ pc[c] \in {"body", "unlock"} =>
                    LocksHeld(c) = {StoreOf(frame[c].op)})
    /\ \A c \in Callers : InCall(c) ~> ~InCall(c)

\* a ProcessPayment has returned the error of its Update, another caller
\* having deleted the payment meanwhile; no lock is held
C40_Witness ==
    \E c \in Callers :
        /\ Returned(c, "AppProcessPayment")
        /\ frame[c].err = DomainErr("AppProcessPayment", "payment not found")
        /\ frame[c].oldStatus = "pending"
        /\ \A s \in Stores : mu[s] = Unlocked

====
